---- MODULE Spec2Model ----
(***************************************************************************)
(* A model of the smart-vault session aggregate (src/src/lib.rs), of its   *)
(* cache index (src/src/cache.rs) and of the fusion step of the LLM        *)
(* reranker (src/src/llm.rs).                                              *)
(*                                                                         *)
(* Strings are sequences of one-character strings, so that prefix tests,   *)
(* substring tests and compound keys are computed as the code computes     *)
(* them.  f32 scores are fixed-point integers in hundredths; a threshold   *)
(* multiplied by 0.85 is compared by cross-multiplication.  A host number  *)
(* (f64) that carries a modification time is an integer count of halves,   *)
(* so that fractional and negative times exist.                            *)
(***************************************************************************)
EXTENDS Integers, Sequences, FiniteSets, TLC

VARIABLES
    cache_index,    \* SmartVault.cache_index : CacheIndex (five maps)
    embeddings,     \* SmartVault.embeddings : path -> vector
    file_contents,  \* SmartVault.file_contents : path -> text
    keywords,       \* SmartVault.keywords : path -> sequence of keywords
    now,            \* the host clock read by js_sys::Date::now()
    bytes,          \* the persisted blob handed between serialize and deserialize
    ops,            \* number of operations performed in this session
    ret             \* the last operation: its name, its arguments, its result

vars == <<cache_index, embeddings, file_contents, keywords, now, bytes, ops, ret>>

-----------------------------------------------------------------------------
(* Bounds *)

MaxTime == 1
MaxOps == 3
MaxClock == 1

-----------------------------------------------------------------------------
(* Maps (HashMap) as functions with a finite domain *)

EmptyMap == <<>>

MapInsert(m, k, v) == [x \in (DOMAIN m) \cup {k} |-> IF x = k THEN v ELSE m[x]]

MapRemove(m, k) == [x \in (DOMAIN m) \ {k} |-> m[x]]

MapGet(m, k) == IF k \in DOMAIN m THEN <<m[k]>> ELSE <<>>

(* Strings *)

starts_with(s, prefix) ==
    /\ Len(prefix) <= Len(s)
    /\ SubSeq(s, 1, Len(prefix)) = prefix

contains(s, pat) ==
    \E i \in 1..(Len(s) - Len(pat) + 1) : SubSeq(s, i, i + Len(pat) - 1) = pat

-----------------------------------------------------------------------------
(* CacheIndex, src/src/cache.rs *)

CacheIndex_new ==
    [ embedding_mtimes    |-> EmptyMap,
      keyword_mtimes      |-> EmptyMap,
      suggestion_mtimes   |-> EmptyMap,
      ignored_suggestions |-> EmptyMap,
      insertion_cache     |-> EmptyMap ]

is_embedding_fresh(ci, path, current_mtime) ==
    /\ path \in DOMAIN ci.embedding_mtimes
    /\ ci.embedding_mtimes[path] = current_mtime

is_keyword_fresh(ci, path, current_mtime) ==
    /\ path \in DOMAIN ci.keyword_mtimes
    /\ ci.keyword_mtimes[path] = current_mtime

\* a freshness test with a tolerance: anything processed at or before the time
is_suggestion_fresh_tolerant(ci, path, current_mtime) ==
    /\ path \in DOMAIN ci.suggestion_mtimes
    /\ ci.suggestion_mtimes[path] <= current_mtime

is_suggestion_fresh(ci, path, current_mtime) ==
    /\ path \in DOMAIN ci.suggestion_mtimes
    /\ ci.suggestion_mtimes[path] = current_mtime

mark_embedding_processed(ci, path, mtime) ==
    [ci EXCEPT !.embedding_mtimes = MapInsert(@, path, mtime)]

mark_keyword_processed(ci, path, mtime) ==
    [ci EXCEPT !.keyword_mtimes = MapInsert(@, path, mtime)]

mark_suggestion_processed(ci, path, mtime) ==
    [ci EXCEPT !.suggestion_mtimes = MapInsert(@, path, mtime)]

\* keys_to_remove of invalidate_file and invalidate_insertion_cache_for_file
insertion_keys_to_remove(ci, path) ==
    {k \in DOMAIN ci.insertion_cache : starts_with(k, path \o <<":", ":">>)}

invalidate_file(ci, path) ==
    [ci EXCEPT
        !.embedding_mtimes  = MapRemove(@, path),
        !.keyword_mtimes    = MapRemove(@, path),
        !.suggestion_mtimes = MapRemove(@, path),
        !.insertion_cache   =
            [k \in (DOMAIN @) \ insertion_keys_to_remove(ci, path) |-> @[k]]]

clear(ci) == CacheIndex_new

make_ignored_key(source, target) == source \o <<"|">> \o target

is_suggestion_ignored(ci, source_file, target_file) ==
    make_ignored_key(source_file, target_file) \in DOMAIN ci.ignored_suggestions

\* an ignore that toggles: a pair that is already ignored is un-ignored
ignore_suggestion_toggle(ci, source_file, target_file, date_now) ==
    [ci EXCEPT !.ignored_suggestions =
        IF make_ignored_key(source_file, target_file) \in DOMAIN @
        THEN MapRemove(@, make_ignored_key(source_file, target_file))
        ELSE MapInsert(@, make_ignored_key(source_file, target_file), date_now)]

ignore_suggestion(ci, source_file, target_file, date_now) ==
    [ci EXCEPT !.ignored_suggestions =
        MapInsert(@, make_ignored_key(source_file, target_file), date_now)]

unignore_suggestion(ci, source_file, target_file) ==
    [ci EXCEPT !.ignored_suggestions =
        MapRemove(@, make_ignored_key(source_file, target_file))]

clear_ignored_suggestions(ci) ==
    [ci EXCEPT !.ignored_suggestions = EmptyMap]

make_insertion_key(file_path, link_title) ==
    file_path \o <<":", ":">> \o link_title

get_cached_insertion(ci, file_path, link_title) ==
    MapGet(ci.insertion_cache, make_insertion_key(file_path, link_title))

cache_insertion(ci, file_path, link_title, result_json) ==
    [ci EXCEPT !.insertion_cache =
        MapInsert(@, make_insertion_key(file_path, link_title), result_json)]

\* a count of every entry the insertion cache holds
removed_count_all(ci, file_path) == Cardinality(DOMAIN ci.insertion_cache)

\* keys_to_remove.len(), the usize invalidate_insertion_cache_for_file returns
removed_count(ci, file_path) == Cardinality(insertion_keys_to_remove(ci, file_path))

invalidate_insertion_cache_for_file(ci, file_path) ==
    [ci EXCEPT !.insertion_cache =
        [k \in (DOMAIN @) \ insertion_keys_to_remove(ci, file_path) |-> @[k]]]

clear_insertion_cache(ci) ==
    [ci EXCEPT !.insertion_cache = EmptyMap]

-----------------------------------------------------------------------------
(* The three artifact kinds, dispatched by name *)

Kinds == {"embedding", "keyword", "suggestion"}

mtime_map(ci, kind) ==
    CASE kind = "embedding"  -> ci.embedding_mtimes
      [] kind = "keyword"    -> ci.keyword_mtimes
      [] kind = "suggestion" -> ci.suggestion_mtimes

is_fresh(ci, kind, path, current_mtime) ==
    CASE kind = "embedding"  -> is_embedding_fresh(ci, path, current_mtime)
      [] kind = "keyword"    -> is_keyword_fresh(ci, path, current_mtime)
      [] kind = "suggestion" -> is_suggestion_fresh(ci, path, current_mtime)

mark_processed(ci, kind, path, mtime) ==
    CASE kind = "embedding"  -> mark_embedding_processed(ci, path, mtime)
      [] kind = "keyword"    -> mark_keyword_processed(ci, path, mtime)
      [] kind = "suggestion" -> mark_suggestion_processed(ci, path, mtime)

-----------------------------------------------------------------------------
(* Inputs of the cache operations *)

\* "a", "a::b", "b": the second begins with the first followed by "::"
CachePaths == { <<"a">>, <<"a", ":", ":", "b">>, <<"b">> }

\* "t", "b::t"
LinkTitles == { <<"t">>, <<"b", ":", ":", "t">> }

\* opaque InsertionResult JSON strings
Blobs == { <<"1">>, <<"2">> }

\* source and target files of a dismissed suggestion
IgnoreFiles == { <<"a">>, <<"b">> }

\* a host number counted in halves: -1 is -0.5, 3 is 1.5
HostTimes == (-1)..(2 * MaxTime + 1)

\* the whole, non-negative host numbers: a file system's mtime in milliseconds
WholeTimes == {2 * t : t \in 0..MaxTime}

\* Rust's `f64 as u64`: truncation toward zero, negative values saturate to 0
as_u64(host) == IF host < 0 THEN 0 ELSE host \div 2

-----------------------------------------------------------------------------
(* SmartVault::new *)

NoRet == [op |-> "new"]

\* nothing persisted yet: a blob that no decoder accepts
NoBytes == [t |-> "none", v |-> <<>>]

Init ==
    /\ cache_index = CacheIndex_new
    /\ embeddings = EmptyMap
    /\ file_contents = EmptyMap
    /\ keywords = EmptyMap
    /\ now = 0
    /\ bytes = NoBytes
    /\ ops = 0
    /\ ret = NoRet

Step == ops < MaxOps /\ ops' = ops + 1

StoresUnchanged == UNCHANGED <<embeddings, file_contents, keywords, bytes>>

(* SmartVault's cache operations, src/src/lib.rs 302-398 *)

MarkProcessed(kind, path, host) ==
    /\ Step
    /\ cache_index' = mark_processed(cache_index, kind, path, as_u64(host))
    /\ ret' = [op |-> "mark_processed", kind |-> kind, path |-> path,
               host |-> host, mtime |-> as_u64(host)]
    /\ UNCHANGED now
    /\ StoresUnchanged

InvalidateFileCaches(path) ==
    /\ Step
    /\ cache_index' = invalidate_file(cache_index, path)
    /\ ret' = [op |-> "invalidate_file", path |-> path, returned |-> <<>>]
    /\ UNCHANGED now
    /\ StoresUnchanged

ClearAllCaches ==
    /\ Step
    /\ cache_index' = clear(cache_index)
    /\ ret' = [op |-> "clear"]
    /\ UNCHANGED now
    /\ StoresUnchanged

IgnoreSuggestion(source_file, target_file) ==
    /\ Step
    /\ cache_index' = ignore_suggestion(cache_index, source_file, target_file, now)
    /\ ret' = [op |-> "ignore_suggestion", source |-> source_file,
               target |-> target_file, at |-> now,
               \* what HashMap::insert returns: the value it replaced
               replaced |-> MapGet(cache_index.ignored_suggestions,
                                   make_ignored_key(source_file, target_file))]
    /\ UNCHANGED now
    /\ StoresUnchanged

UnignoreSuggestion(source_file, target_file) ==
    /\ Step
    /\ cache_index' = unignore_suggestion(cache_index, source_file, target_file)
    /\ ret' = [op |-> "unignore_suggestion", source |-> source_file,
               target |-> target_file]
    /\ UNCHANGED now
    /\ StoresUnchanged

ClearIgnoredSuggestions ==
    /\ Step
    /\ cache_index' = clear_ignored_suggestions(cache_index)
    /\ ret' = [op |-> "clear_ignored_suggestions"]
    /\ UNCHANGED now
    /\ StoresUnchanged

CacheInsertion(file_path, link_title, result_json) ==
    /\ Step
    /\ cache_index' = cache_insertion(cache_index, file_path, link_title, result_json)
    /\ ret' = [op |-> "cache_insertion", path |-> file_path,
               title |-> link_title, blob |-> result_json]
    /\ UNCHANGED now
    /\ StoresUnchanged

InvalidateInsertionCacheForFile(file_path) ==
    /\ Step
    /\ cache_index' = invalidate_insertion_cache_for_file(cache_index, file_path)
    /\ ret' = [op |-> "invalidate_insertion_cache_for_file", path |-> file_path,
               count |-> removed_count(cache_index, file_path),
               returned |-> <<removed_count(cache_index, file_path)>>]
    /\ UNCHANGED now
    /\ StoresUnchanged

ClearInsertionCache ==
    /\ Step
    /\ cache_index' = clear_insertion_cache(cache_index)
    /\ ret' = [op |-> "clear_insertion_cache"]
    /\ UNCHANGED now
    /\ StoresUnchanged

\* the host clock advances between two calls
Tick ==
    /\ now < MaxClock
    /\ now' = now + 1
    /\ UNCHANGED <<cache_index, ops, ret>>
    /\ StoresUnchanged

Next ==
    \/ \E k \in Kinds, p \in CachePaths, h \in WholeTimes : MarkProcessed(k, p, h)
    \/ \E p \in CachePaths : InvalidateFileCaches(p)
    \/ ClearAllCaches
    \/ \E s \in IgnoreFiles, t \in IgnoreFiles : IgnoreSuggestion(s, t)
    \/ \E s \in IgnoreFiles, t \in IgnoreFiles : UnignoreSuggestion(s, t)
    \/ ClearIgnoredSuggestions
    \/ \E p \in CachePaths, t \in LinkTitles, b \in Blobs : CacheInsertion(p, t, b)
    \/ \E p \in CachePaths : InvalidateInsertionCacheForFile(p)
    \/ ClearInsertionCache
    \/ Tick

Spec == Init /\ [][Next]_vars

-----------------------------------------------------------------------------
(* Versioned (de)serialization, src/src/cache.rs 182-239 and lib.rs 403-430 *)
(*                                                                         *)
(* An encoded blob is the tree of values the encoder writes: each node     *)
(* carries the type marker the wire format carries (t) and its payload     *)
(* (v).  rmp_serde::to_vec writes a struct as an array of its fields in    *)
(* declaration order and a HashMap as a map of its entries in iteration    *)
(* order; serde_json writes a struct as an object keyed by field name.     *)

Arr(items)    == [t |-> "arr",  v |-> items]
MMap(entries) == [t |-> "map",  v |-> entries]
UInt(n)       == [t |-> "uint", v |-> n]
Str(s)        == [t |-> "str",  v |-> s]
JObj(entries) == [t |-> "obj",  v |-> entries]

\* a struct field name as a JSON object key
Field(name) == <<name>>

\* the iteration orders of a HashMap: every enumeration of its keys
Orders(S) ==
    {o \in [1..Cardinality(S) -> S] : \A i, j \in DOMAIN o : i # j => o[i] # o[j]}

\* the five iteration orders one serialization meets
IterationOrders(ci) ==
    [ embedding_mtimes    : Orders(DOMAIN ci.embedding_mtimes),
      keyword_mtimes      : Orders(DOMAIN ci.keyword_mtimes),
      suggestion_mtimes   : Orders(DOMAIN ci.suggestion_mtimes),
      ignored_suggestions : Orders(DOMAIN ci.ignored_suggestions),
      insertion_cache     : Orders(DOMAIN ci.insertion_cache) ]

U64Entries(m, order) == [i \in DOMAIN order |-> <<Str(order[i]), UInt(m[order[i]])>>]
StrEntries(m, order) == [i \in DOMAIN order |-> <<Str(order[i]), Str(m[order[i]])>>]

CacheHeader_new(format, date_now) ==
    [version |-> 1, format |-> format, created_at |-> date_now]

VersionedCache_new(data, format, date_now) ==
    [ header |-> IF format = "msgpack" THEN CacheHeader_new("msgpack", date_now)
                                       ELSE CacheHeader_new("json", date_now),
      data   |-> data ]

\* #[derive(Serialize)] of CacheIndex and of VersionedCache<CacheIndex>, msgpack
CacheIndex_to_msgpack(ci, o) ==
    Arr(<< MMap(U64Entries(ci.embedding_mtimes, o.embedding_mtimes)),
           MMap(U64Entries(ci.keyword_mtimes, o.keyword_mtimes)),
           MMap(U64Entries(ci.suggestion_mtimes, o.suggestion_mtimes)),
           MMap(U64Entries(ci.ignored_suggestions, o.ignored_suggestions)),
           MMap(StrEntries(ci.insertion_cache, o.insertion_cache)) >>)

to_msgpack(versioned, o) ==
    Arr(<< Arr(<< UInt(versioned.header.version),
                  Str(versioned.header.format),
                  UInt(versioned.header.created_at) >>),
           CacheIndex_to_msgpack(versioned.data, o) >>)

\* #[derive(Serialize)] of the same, JSON
CacheIndex_to_json(ci, o) ==
    JObj(<< <<Field("embedding_mtimes"),
              JObj(U64Entries(ci.embedding_mtimes, o.embedding_mtimes))>>,
            <<Field("keyword_mtimes"),
              JObj(U64Entries(ci.keyword_mtimes, o.keyword_mtimes))>>,
            <<Field("suggestion_mtimes"),
              JObj(U64Entries(ci.suggestion_mtimes, o.suggestion_mtimes))>>,
            <<Field("ignored_suggestions"),
              JObj(U64Entries(ci.ignored_suggestions, o.ignored_suggestions))>>,
            <<Field("insertion_cache"),
              JObj(StrEntries(ci.insertion_cache, o.insertion_cache))>> >>)

to_json(versioned, o) ==
    JObj(<< <<Field("header"),
              JObj(<< <<Field("version"), UInt(versioned.header.version)>>,
                      <<Field("format"), Str(versioned.header.format)>>,
                      <<Field("created_at"), UInt(versioned.header.created_at)>> >>)>>,
            <<Field("data"), CacheIndex_to_json(versioned.data, o)>> >>)

(* Decoding.  A decoder first tests that the node has the shape the type   *)
(* asks for and then builds the value; a HashMap is filled entry by entry, *)
(* a later entry replacing an earlier one with the same key.               *)

IsEntries(node, tag, valueTag) ==
    /\ node.t = tag
    /\ \A i \in DOMAIN node.v :
          /\ node.v[i][1].t = "str"
          /\ node.v[i][2].t = valueTag

RECURSIVE MapFromEntries(_)
MapFromEntries(entries) ==
    IF entries = <<>> THEN EmptyMap
    ELSE LET n == Len(entries)
         IN  MapInsert(MapFromEntries(SubSeq(entries, 1, n - 1)),
                       entries[n][1].v, entries[n][2].v)

IsMsgpackCacheIndex(node) ==
    /\ node.t = "arr"
    /\ Len(node.v) = 5
    /\ \A i \in 1..4 : IsEntries(node.v[i], "map", "uint")
    /\ IsEntries(node.v[5], "map", "str")

\* a decoder that reads the third and the second field in each other's place
CacheIndex_from_msgpack_swapped(node) ==
    [ embedding_mtimes    |-> MapFromEntries(node.v[1].v),
      keyword_mtimes      |-> MapFromEntries(node.v[3].v),
      suggestion_mtimes   |-> MapFromEntries(node.v[2].v),
      ignored_suggestions |-> MapFromEntries(node.v[4].v),
      insertion_cache     |-> MapFromEntries(node.v[5].v) ]

CacheIndex_from_msgpack(node) ==
    [ embedding_mtimes    |-> MapFromEntries(node.v[1].v),
      keyword_mtimes      |-> MapFromEntries(node.v[2].v),
      suggestion_mtimes   |-> MapFromEntries(node.v[3].v),
      ignored_suggestions |-> MapFromEntries(node.v[4].v),
      insertion_cache     |-> MapFromEntries(node.v[5].v) ]

IsMsgpackHeader(node) ==
    /\ node.t = "arr"
    /\ Len(node.v) = 3
    /\ node.v[1].t = "uint"   \* version: u32; every number written here fits
    /\ node.v[2].t = "str"
    /\ node.v[3].t = "uint"

IsMsgpackVersioned(node) ==
    /\ node.t = "arr"
    /\ Len(node.v) = 2
    /\ IsMsgpackHeader(node.v[1])
    /\ IsMsgpackCacheIndex(node.v[2])

\* VersionedCache::<CacheIndex>::from_msgpack
from_msgpack(data) ==
    IF IsMsgpackVersioned(data)
    THEN [ok |-> TRUE,
          header |-> [version    |-> data.v[1].v[1].v,
                      format     |-> data.v[1].v[2].v,
                      created_at |-> data.v[1].v[3].v],
          data |-> CacheIndex_from_msgpack(data.v[2])]
    ELSE [ok |-> FALSE]

\* rmp_serde::from_slice::<CacheIndex>
CacheIndex_from_slice(data) ==
    IF IsMsgpackCacheIndex(data)
    THEN [ok |-> TRUE, data |-> CacheIndex_from_msgpack(data)]
    ELSE [ok |-> FALSE]

\* the fields of a JSON object that carry the given name
FieldAt(node, name) == {i \in DOMAIN node.v : node.v[i][1] = Field(name)}

\* a derived struct reads each of its fields exactly once, by name
HasFields(node, names) ==
    /\ node.t = "obj"
    /\ \A nm \in names : Cardinality(FieldAt(node, nm)) = 1

GetField(node, name) == node.v[CHOOSE i \in FieldAt(node, name) : TRUE][2]

CacheIndexFields ==
    {"embedding_mtimes", "keyword_mtimes", "suggestion_mtimes",
     "ignored_suggestions", "insertion_cache"}

IsJsonCacheIndex(node) ==
    /\ HasFields(node, CacheIndexFields)
    /\ \A nm \in CacheIndexFields \ {"insertion_cache"} :
          IsEntries(GetField(node, nm), "obj", "uint")
    /\ IsEntries(GetField(node, "insertion_cache"), "obj", "str")

IsJsonHeader(node) ==
    /\ HasFields(node, {"version", "format", "created_at"})
    /\ GetField(node, "version").t = "uint"
    /\ GetField(node, "format").t = "str"
    /\ GetField(node, "created_at").t = "uint"

\* VersionedCache::<CacheIndex>::from_json
from_json(json) ==
    IF /\ HasFields(json, {"header", "data"})
       /\ IsJsonHeader(GetField(json, "header"))
       /\ IsJsonCacheIndex(GetField(json, "data"))
    THEN LET d == GetField(json, "data")
         IN  [ok |-> TRUE,
              data |-> [nm \in CacheIndexFields |-> MapFromEntries(GetField(d, nm).v)]]
    ELSE [ok |-> FALSE]

\* SmartVault::deserialize_cache_index: the versioned form first, then the
\* legacy raw CacheIndex; the index is replaced only when one of them decodes
\* a loader that starts from an empty index when both decodes fail
deserialize_cache_index_reset(ci, data) ==
    LET versioned == from_msgpack(data)
        legacy    == CacheIndex_from_slice(data)
    IN  IF versioned.ok THEN [ok |-> TRUE, cache_index |-> versioned.data]
        ELSE IF legacy.ok THEN [ok |-> TRUE, cache_index |-> legacy.data]
        ELSE [ok |-> FALSE, cache_index |-> CacheIndex_new]

\* a loader that knows the envelope only
deserialize_cache_index_envelope_only(ci, data) ==
    LET versioned == from_msgpack(data)
    IN  IF versioned.ok THEN [ok |-> TRUE, cache_index |-> versioned.data]
        ELSE [ok |-> FALSE, cache_index |-> ci]

deserialize_cache_index(ci, data) ==
    LET versioned == from_msgpack(data)
        legacy    == CacheIndex_from_slice(data)
    IN  IF versioned.ok THEN [ok |-> TRUE, cache_index |-> versioned.data]
        ELSE IF legacy.ok THEN [ok |-> TRUE, cache_index |-> legacy.data]
        ELSE [ok |-> FALSE, cache_index |-> ci]

SerializeCacheIndex ==
    /\ Step
    /\ \E o \in IterationOrders(cache_index) :
          bytes' = to_msgpack(VersionedCache_new(cache_index, "msgpack", now), o)
    /\ ret' = [op |-> "serialize_cache_index"]
    /\ UNCHANGED <<cache_index, embeddings, file_contents, keywords, now>>

DeserializeCacheIndex ==
    /\ Step
    /\ LET r == deserialize_cache_index(cache_index, bytes)
       IN  /\ cache_index' = r.cache_index
           /\ ret' = [op |-> "deserialize_cache_index", ok |-> r.ok]
    /\ UNCHANGED now
    /\ StoresUnchanged

\* VersionedCache::new(index, "json").to_json()
SerializeJson ==
    /\ Step
    /\ \E o \in IterationOrders(cache_index) :
          bytes' = to_json(VersionedCache_new(cache_index, "json", now), o)
    /\ ret' = [op |-> "to_json"]
    /\ UNCHANGED <<cache_index, embeddings, file_contents, keywords, now>>

\* VersionedCache::<CacheIndex>::from_json(text), the index taken from .data
DeserializeJson ==
    /\ Step
    /\ LET r == from_json(bytes)
       IN  /\ cache_index' = IF r.ok THEN r.data ELSE cache_index
           /\ ret' = [op |-> "from_json", ok |-> r.ok]
    /\ UNCHANGED now
    /\ StoresUnchanged

(* The indices a session can hold when it is persisted *)

CodecPaths == { <<"a">>, <<"b">> }

\* the maps that hold at least one entry, as the round trip asks
MapsOver(keys, values) == UNION {[d -> values] : d \in (SUBSET keys) \ {{}}}

CodecIndices ==
    [ embedding_mtimes    : MapsOver(CodecPaths, 0..MaxTime),
      keyword_mtimes      : MapsOver({<<"a">>}, 0..MaxTime),
      suggestion_mtimes   : MapsOver({<<"b">>}, 0..MaxTime),
      ignored_suggestions : MapsOver({make_ignored_key(<<"a">>, <<"b">>)}, 0..MaxClock),
      insertion_cache     : MapsOver({make_insertion_key(<<"a">>, <<"t">>),
                                      make_insertion_key(<<"b">>, <<"t">>)}, Blobs) ]

InitCodec ==
    /\ cache_index \in CodecIndices
    /\ embeddings = EmptyMap
    /\ file_contents = EmptyMap
    /\ keywords = EmptyMap
    /\ now = 0
    /\ bytes = NoBytes
    /\ ops = 0
    /\ ret = NoRet

NextCodec ==
    \/ SerializeCacheIndex
    \/ SerializeJson
    \/ ClearAllCaches
    \/ DeserializeCacheIndex
    \/ DeserializeJson

SpecCodec == InitCodec /\ [][NextCodec]_vars

-----------------------------------------------------------------------------
(* Scan planning, src/src/lib.rs 452-517 *)

None == <<>>
Some(x) == <<x>>

FileInfo(path, mtime) == [path |-> path, mtime |-> mtime]

\* a test that trusts the freshness mark and never looks for the vector
needs_embedding_fresh_only(ci, emb, file) ==
    ~is_embedding_fresh(ci, file.path, as_u64(file.mtime))

needs_embedding(ci, emb, file) ==
    \/ ~(file.path \in DOMAIN emb)
    \/ ~is_embedding_fresh(ci, file.path, as_u64(file.mtime))

\* a test of the keyword mark alone
needs_keywords_own_mark(ci, emb, file) ==
    ~is_keyword_fresh(ci, file.path, as_u64(file.mtime))

needs_keywords(ci, emb, file) ==
    \/ needs_embedding(ci, emb, file)
    \/ ~is_keyword_fresh(ci, file.path, as_u64(file.mtime))

needs_suggestions(ci, emb, file, check_suggestions) ==
    /\ check_suggestions
    /\ \/ needs_embedding(ci, emb, file)
       \/ ~is_suggestion_fresh(ci, file.path, as_u64(file.mtime))

FileToProcess(ci, emb, file, check_suggestions) ==
    [ path              |-> file.path,
      mtime             |-> file.mtime,
      needs_embedding   |-> needs_embedding(ci, emb, file),
      needs_keywords    |-> needs_keywords(ci, emb, file),
      needs_suggestions |-> needs_suggestions(ci, emb, file, check_suggestions) ]

\* a loop that pushes every file to both lists
classify_into_both(ci, emb, files, check_suggestions) ==
    [ to_process |-> [i \in 1..Len(files) |-> FileToProcess(ci, emb, files[i], check_suggestions)],
      to_skip    |-> [i \in 1..Len(files) |-> files[i].path] ]

\* the loop over the files: each goes to the end of to_process or of to_skip
RECURSIVE classify(_, _, _, _)
classify(ci, emb, files, check_suggestions) ==
    IF files = <<>> THEN [to_process |-> <<>>, to_skip |-> <<>>]
    ELSE LET n    == Len(files)
             done == classify(ci, emb, SubSeq(files, 1, n - 1), check_suggestions)
             item == FileToProcess(ci, emb, files[n], check_suggestions)
         IN  IF item.needs_embedding \/ item.needs_keywords \/ item.needs_suggestions
             THEN [done EXCEPT !.to_process = Append(@, item)]
             ELSE [done EXCEPT !.to_skip = Append(@, files[n].path)]

is_current(item, current_file) ==
    current_file # None /\ item.path = current_file[1]

\* a comparator that forgets the current file and orders by mtime alone
compare_is_less_by_mtime(a, b, current_file) == b.mtime < a.mtime

\* the closure given to sort_by returns Ordering::Less
compare_is_less(a, b, current_file) ==
    IF is_current(a, current_file) /\ ~is_current(b, current_file) THEN TRUE
    ELSE IF ~is_current(a, current_file) /\ is_current(b, current_file) THEN FALSE
    ELSE b.mtime < a.mtime

\* Vec::sort_by is stable: an item goes before the first one it is less than
RECURSIVE sort_to_process(_, _)
sort_to_process(items, current_file) ==
    IF items = <<>> THEN <<>>
    ELSE LET n      == Len(items)
             sorted == sort_to_process(SubSeq(items, 1, n - 1), current_file)
             x      == items[n]
             after  == {i \in 1..Len(sorted) : compare_is_less(x, sorted[i], current_file)}
             k      == IF after = {} THEN Len(sorted) + 1
                       ELSE CHOOSE i \in after : \A j \in after : i <= j
         IN  SubSeq(sorted, 1, k - 1) \o <<x>> \o SubSeq(sorted, k, Len(sorted))

\* Iterator::position: the zero-based index of the first match
position(items, path) ==
    LET hits == {i \in 1..Len(items) : items[i].path = path}
    IN  IF hits = {} THEN None
        ELSE Some((CHOOSE i \in hits : \A j \in hits : i <= j) - 1)

\* an index taken in the list as classified, before it is sorted
current_file_index_unsorted(sorted, unsorted, current_file) ==
    IF current_file = None THEN None ELSE position(unsorted, current_file[1])

current_file_index(sorted, unsorted, current_file) ==
    IF current_file = None THEN None ELSE position(sorted, current_file[1])

\* files_json that serde_json cannot parse gives JsValue::NULL
NullPlan == [null |-> TRUE]

plan_scan(ci, emb, request) ==
    IF ~request.valid_json THEN NullPlan
    ELSE LET lists  == classify(ci, emb, request.files, request.check_suggestions)
             sorted == sort_to_process(lists.to_process, request.current_file)
         IN  [ null               |-> FALSE,
               to_process         |-> sorted,
               to_skip            |-> lists.to_skip,
               current_file_index |->
                   current_file_index(sorted, lists.to_process, request.current_file) ]

\* plan_scan takes &self and changes nothing, so a second plan in the same
\* session is computed from the same state: one plan per session is modelled
PlanScan(request) ==
    /\ ops = 0
    /\ ops' = 1
    /\ ret' = [op |-> "plan_scan", request |-> request,
               plan |-> plan_scan(cache_index, embeddings, request)]
    /\ UNCHANGED <<cache_index, embeddings, file_contents, keywords, now, bytes>>

(* The sessions and the listings a scan is planned for *)

PathA == <<"A">>
PathB == <<"B">>
PathC == <<"C">>

\* the mtime the artifacts held by the session were processed at
ProcessedAt == 0

\* a stored vector
SomeVector == <<1, 0>>

\* what the session holds for one path: a vector or none, and for each kind a
\* mark at ProcessedAt or none
Holdings == [vector : BOOLEAN, embedding : BOOLEAN, keyword : BOOLEAN, suggestion : BOOLEAN]

FullyProcessed == [vector |-> TRUE, embedding |-> TRUE, keyword |-> TRUE, suggestion |-> TRUE]

\* A and C hold any combination; B is fully processed
ScanSessions ==
    {h \in [{PathA, PathB, PathC} -> Holdings] : h[PathB] = FullyProcessed}

MarkedPaths(h, kind) ==
    {p \in DOMAIN h : CASE kind = "embedding"  -> h[p].embedding
                        [] kind = "keyword"    -> h[p].keyword
                        [] kind = "suggestion" -> h[p].suggestion}

TwoFiles ==
    {<<FileInfo(p, t), FileInfo(q, u)>> :
        p \in {PathA, PathC}, q \in {PathA, PathC}, t \in HostTimes, u \in HostTimes}

\* listings name each path once, as a vault listing does
TwoFileListings ==
    {<<>>}
    \cup {<<FileInfo(p, t)>> : p \in {PathA, PathC}, t \in HostTimes}
    \cup {l \in TwoFiles : l[1].path # l[2].path}

ThreeFileListings ==
    {<<FileInfo(PathA, t), FileInfo(PathB, u), FileInfo(PathC, w)>> :
        t \in HostTimes, u \in WholeTimes, w \in HostTimes}

ScanRequests ==
    [ valid_json        : {TRUE},
      files             : TwoFileListings \cup ThreeFileListings,
      current_file      : {None, Some(PathA), Some(PathB)},
      check_suggestions : BOOLEAN ]
    \cup
    { [valid_json |-> FALSE, files |-> <<>>, current_file |-> None,
       check_suggestions |-> FALSE] }

InitScan ==
    /\ \E h \in ScanSessions :
          /\ embeddings = [p \in {q \in DOMAIN h : h[q].vector} |-> SomeVector]
          /\ cache_index =
                [CacheIndex_new EXCEPT
                    !.embedding_mtimes  = [p \in MarkedPaths(h, "embedding")  |-> ProcessedAt],
                    !.keyword_mtimes    = [p \in MarkedPaths(h, "keyword")    |-> ProcessedAt],
                    !.suggestion_mtimes = [p \in MarkedPaths(h, "suggestion") |-> ProcessedAt]]
    /\ file_contents = EmptyMap
    /\ keywords = EmptyMap
    /\ now = 0
    /\ bytes = NoBytes
    /\ ops = 0
    /\ ret = NoRet

NextScan == ops = 0 /\ \E request \in ScanRequests : PlanScan(request)

SpecScan == InitScan /\ [][NextScan]_vars

(* A scan as the host runs it: plan, process every work item, plan again *)

set_embedding(emb, path, embedding) == MapInsert(emb, path, embedding)

\* marks only, the vector is not stored
process_item_marks_only(session, item) ==
    [ embeddings  |-> session.embeddings,
      cache_index |->
        LET e == IF item.needs_embedding
                 THEN mark_processed(session.cache_index, "embedding", item.path, as_u64(item.mtime))
                 ELSE session.cache_index
            k == IF item.needs_keywords
                 THEN mark_processed(e, "keyword", item.path, as_u64(item.mtime))
                 ELSE e
        IN  IF item.needs_suggestions
            THEN mark_processed(k, "suggestion", item.path, as_u64(item.mtime))
            ELSE k ]

\* the calls for one work item: set_embedding when needs_embedding, and
\* mark_*_processed(path, mtime) for every flag of the item
process_item(session, item) ==
    [ embeddings  |->
        IF item.needs_embedding
        THEN set_embedding(session.embeddings, item.path, SomeVector)
        ELSE session.embeddings,
      cache_index |->
        LET e == IF item.needs_embedding
                 THEN mark_processed(session.cache_index, "embedding", item.path, as_u64(item.mtime))
                 ELSE session.cache_index
            k == IF item.needs_keywords
                 THEN mark_processed(e, "keyword", item.path, as_u64(item.mtime))
                 ELSE e
        IN  IF item.needs_suggestions
            THEN mark_processed(k, "suggestion", item.path, as_u64(item.mtime))
            ELSE k ]

RECURSIVE process_items(_, _)
process_items(session, items) ==
    IF items = <<>> THEN session
    ELSE process_item(process_items(session, SubSeq(items, 1, Len(items) - 1)),
                      items[Len(items)])

\* the host works through to_process of the plan it was given
ProcessPlan ==
    /\ ret.op = "plan_scan"
    /\ ~ret.plan.null
    /\ Step
    /\ LET session == process_items([embeddings |-> embeddings, cache_index |-> cache_index],
                                    ret.plan.to_process)
       IN  /\ embeddings' = session.embeddings
           /\ cache_index' = session.cache_index
    /\ ret' = [op |-> "process_plan", request |-> ret.request, plan |-> ret.plan]
    /\ UNCHANGED <<file_contents, keywords, now, bytes>>

\* plan_scan with the listing, current file and flag of the first plan
PlanScanAgain ==
    /\ ret.op = "process_plan"
    /\ Step
    /\ ret' = [op |-> "plan_scan_again", request |-> ret.request, first |-> ret.plan,
               plan |-> plan_scan(cache_index, embeddings, ret.request)]
    /\ UNCHANGED <<cache_index, embeddings, file_contents, keywords, now, bytes>>

InitConverge == InitScan

NextConverge ==
    \/ ops = 0 /\ \E request \in ScanRequests : PlanScan(request)
    \/ ProcessPlan
    \/ PlanScanAgain

SpecConverge == InitConverge /\ [][NextConverge]_vars

-----------------------------------------------------------------------------
(* Claims about the cache index, checked under Spec *)

U64Times == 0..(MaxTime + 1)

NothingFresh(ci, path) ==
    \A k \in Kinds, t \in U64Times : ~is_fresh(ci, k, path, t)

\* C1: is_fresh(kind, p, t') holds exactly when the kind's mtime map holds an
\* entry for p equal to t'.  Right after mark_processed(kind, p, t) the path is
\* fresh at t and at no other time (t+1 included); nothing is fresh on a new
\* cache, for p after invalidate(p), and for any path after clear().
C1_FreshIffStoredEqual ==
    /\ \A k \in Kinds, p \in CachePaths, t \in U64Times :
          is_fresh(cache_index, k, p, t)
              <=> (p \in DOMAIN mtime_map(cache_index, k)
                   /\ mtime_map(cache_index, k)[p] = t)
    /\ ret.op = "mark_processed" =>
          /\ is_fresh(cache_index, ret.kind, ret.path, ret.mtime)
          /\ ~is_fresh(cache_index, ret.kind, ret.path, ret.mtime + 1)
          /\ \A t \in U64Times \ {ret.mtime} :
                ~is_fresh(cache_index, ret.kind, ret.path, t)
    /\ ret.op = "invalidate_file" => NothingFresh(cache_index, ret.path)
    /\ ret.op \in {"new", "clear"} =>
          \A p \in CachePaths : NothingFresh(cache_index, p)

\* a path was marked at time 1 for one kind while another kind still holds
\* time 0 for it: fresh at 1 for the first kind, stale for the second
C1_Witness ==
    /\ ret.op = "mark_processed"
    /\ ret.mtime = 1
    /\ is_fresh(cache_index, ret.kind, ret.path, 1)
    /\ \E k \in Kinds \ {ret.kind} : is_fresh(cache_index, k, ret.path, 0)

\* C2: invalidate(p) removes p from the three mtime maps and every insertion
\* entry cached for p, and leaves every mtime entry and every insertion entry
\* of any other path, and all ignored pairs, as they were.
C2_InvalidateTouchesOnlyItsPath ==
    [][ (ret'.op = "invalidate_file" /\ ops' = ops + 1) =>
          /\ \A k \in Kinds : ret'.path \notin DOMAIN mtime_map(cache_index', k)
          /\ \A t \in LinkTitles :
                get_cached_insertion(cache_index', ret'.path, t) = <<>>
          /\ \A q \in CachePaths \ {ret'.path} :
                /\ \A k \in Kinds :
                      MapGet(mtime_map(cache_index', k), q)
                          = MapGet(mtime_map(cache_index, k), q)
                /\ \A t \in LinkTitles :
                      get_cached_insertion(cache_index', q, t)
                          = get_cached_insertion(cache_index, q, t)
          /\ cache_index'.ignored_suggestions = cache_index.ignored_suggestions
      ]_vars

\* the step is a second ignore(a, b) right after a first ignore(a, b)
IgnoredAgain ==
    /\ ret.op = "ignore_suggestion"
    /\ ret'.op = "ignore_suggestion"
    /\ ops' = ops + 1
    /\ ret'.source = ret.source
    /\ ret'.target = ret.target

\* C10 as stated: a second ignore(a, b) leaves the cache as the first one left
\* it, stored timestamp included, also when the clock advanced in between.
C10_IgnoreTwiceSameState ==
    [][ IgnoredAgain => cache_index' = cache_index ]_vars

\* C10 amended: a second ignore(a, b) leaves the same set of ignored keys, the
\* same timestamps for every other pair and the same four other maps; the
\* timestamp of (a, b) becomes the clock reading of the second call, so the
\* whole state is the same exactly when the clock did not advance.
C10_IgnoreTwiceSameKeys ==
    [][ IgnoredAgain =>
          LET key == make_ignored_key(ret.source, ret.target)
              old == cache_index.ignored_suggestions
              new == cache_index'.ignored_suggestions
          IN  /\ DOMAIN new = DOMAIN old
              /\ \A k \in (DOMAIN old) \ {key} : new[k] = old[k]
              /\ new[key] = ret'.at
              /\ [cache_index' EXCEPT !.ignored_suggestions = old] = cache_index
              /\ (ret'.at = ret.at <=> cache_index' = cache_index)
      ]_vars

\* a pair ignored at clock 0 is ignored again at clock 1, next to another pair
C10_Witness ==
    /\ ret.op = "ignore_suggestion"
    /\ ret.replaced = <<0>>
    /\ ret.at = 1
    /\ Cardinality(DOMAIN cache_index.ignored_suggestions) = 2

-----------------------------------------------------------------------------
(* Claims about serialization, checked under SpecCodec *)

AllFiveMapsHeld(ci) ==
    /\ ci.embedding_mtimes # EmptyMap
    /\ ci.keyword_mtimes # EmptyMap
    /\ ci.suggestion_mtimes # EmptyMap
    /\ ci.ignored_suggestions # EmptyMap
    /\ ci.insertion_cache # EmptyMap

\* C3: what serialize wrote decodes to an index equal to the serialized one in
\* all five maps, for the msgpack and for the JSON encoding and whatever the
\* iteration order of the maps; a successful load puts that index in place.
C3_RoundTrip ==
    /\ ret.op = "serialize_cache_index" =>
          deserialize_cache_index(CacheIndex_new, bytes)
              = [ok |-> TRUE, cache_index |-> cache_index]
    /\ ret.op = "to_json" =>
          /\ from_json(bytes).ok
          /\ from_json(bytes).data = cache_index
    /\ (ret.op \in {"deserialize_cache_index", "from_json"} /\ ret.ok) =>
          \/ bytes.t = "arr" /\ from_msgpack(bytes).data = cache_index
          \/ bytes.t = "obj" /\ from_json(bytes).data = cache_index

\* an index with an entry in each of the five maps (two in one of them) was
\* serialized, the session was cleared, and the blob was loaded back
C3_Witness ==
    /\ ret.op \in {"deserialize_cache_index", "from_json"}
    /\ ret.ok
    /\ ops = 3
    /\ AllFiveMapsHeld(cache_index)
    /\ Cardinality(DOMAIN cache_index.embedding_mtimes) = 2

-----------------------------------------------------------------------------
(* Claims about scan planning, checked under SpecScan *)

Planned == ret.op = "plan_scan" /\ ~ret.plan.null

Elems(seq) == {seq[i] : i \in 1..Len(seq)}

WorkPaths(plan) == {plan.to_process[i].path : i \in 1..Len(plan.to_process)}

IsCurrentFile(path) ==
    ret.request.current_file # None /\ ret.request.current_file[1] = path

\* C5: in the work list plan_scan returns, the current file, when it is in the
\* list, is first, and the other items follow in non-increasing order of mtime
C5_CurrentFirstThenNewest ==
    Planned =>
        LET tp == ret.plan.to_process
        IN  /\ \A i \in 1..Len(tp) : IsCurrentFile(tp[i].path) => i = 1
            /\ \A i \in 1..Len(tp) : \A j \in 1..Len(tp) :
                  (i < j /\ ~IsCurrentFile(tp[i].path) /\ ~IsCurrentFile(tp[j].path))
                      => tp[i].mtime >= tp[j].mtime

\* the scenario of the specification: A has a stale embedding, B is fresh in
\* everything, C has stale suggestions only, A is current and older than C
C5_Witness ==
    /\ Planned
    /\ ret.request.check_suggestions
    /\ ret.request.current_file = Some(PathA)
    /\ Len(ret.request.files) = 3
    /\ ret.plan.to_skip = <<PathB>>
    /\ Len(ret.plan.to_process) = 2
    /\ ret.plan.to_process[1].path = PathA
    /\ ret.plan.to_process[1].needs_embedding
    /\ ret.plan.to_process[2].path = PathC
    /\ ~ret.plan.to_process[2].needs_embedding
    /\ ~ret.plan.to_process[2].needs_keywords
    /\ ret.plan.to_process[2].needs_suggestions
    /\ ret.plan.to_process[1].mtime < ret.plan.to_process[2].mtime
    /\ ret.plan.current_file_index = Some(0)

\* C6: current_file_index is None when no current file is given, when it is
\* absent from the input or when it needs no work; otherwise it is Some(0) and
\* the first work item is the current file
C6_CurrentFileIndex ==
    Planned =>
        LET plan == ret.plan
            cf   == ret.request.current_file
            listed == cf # None /\ \E i \in 1..Len(ret.request.files) :
                                       ret.request.files[i].path = cf[1]
            skipped == cf # None /\ cf[1] \in Elems(plan.to_skip)
        IN  IF cf = None \/ ~listed \/ skipped
            THEN plan.current_file_index = None
            ELSE /\ plan.current_file_index = Some(0)
                 /\ plan.to_process[1].path = cf[1]

\* the current file is listed last, needs work, and is moved to the front
C6_Witness ==
    /\ Planned
    /\ ret.request.current_file = Some(PathA)
    /\ Len(ret.request.files) = 2
    /\ ret.request.files[2].path = PathA
    /\ ret.request.files[2].mtime < ret.request.files[1].mtime
    /\ Len(ret.plan.to_process) = 2
    /\ ret.plan.current_file_index = Some(0)
    /\ ret.plan.to_process[1].path = PathA

AllFresh(file) ==
    \A kind \in Kinds : is_fresh(cache_index, kind, file.path, as_u64(file.mtime))

\* C7, as stated: a file fresh in all three maps for its reported mtime is in
\* to_skip and not in to_process, whether or not the session holds its vector
C7_FreshEverythingSkipped ==
    Planned =>
        \A file \in Elems(ret.request.files) :
            AllFresh(file) =>
                /\ file.path \in Elems(ret.plan.to_skip)
                /\ file.path \notin WorkPaths(ret.plan)

\* C7, amended: a file fresh in all three maps is skipped when the session
\* holds a vector for its path; without the vector it is in the work list,
\* needing its embedding and its keywords
C7_FreshWithVectorSkipped ==
    Planned =>
        \A file \in Elems(ret.request.files) :
            AllFresh(file) =>
                IF file.path \in DOMAIN embeddings
                THEN /\ file.path \in Elems(ret.plan.to_skip)
                     /\ file.path \notin WorkPaths(ret.plan)
                ELSE /\ file.path \notin Elems(ret.plan.to_skip)
                     /\ \E i \in 1..Len(ret.plan.to_process) :
                           /\ ret.plan.to_process[i].path = file.path
                           /\ ret.plan.to_process[i].needs_embedding
                           /\ ret.plan.to_process[i].needs_keywords
                           /\ ret.plan.to_process[i].needs_suggestions
                                 = ret.request.check_suggestions

\* one listing with both cases: A fresh with its vector, C fresh without one
C7_Witness ==
    /\ Planned
    /\ Len(ret.request.files) = 2
    /\ \A file \in Elems(ret.request.files) : AllFresh(file)
    /\ PathA \in DOMAIN embeddings
    /\ PathC \notin DOMAIN embeddings
    /\ ret.plan.to_skip = <<PathA>>
    /\ WorkPaths(ret.plan) = {PathC}

\* C18: every work item of plan_scan satisfies the cascade: needs_embedding
\* implies needs_keywords; needs_keywords is needs_embedding or a stale
\* keyword mark; needs_suggestions is check_suggestions and (needs_embedding
\* or a stale suggestion mark), so it is false when check_suggestions is
\* false; and at least one of the three flags is set
C18_DependencyCascade ==
    Planned =>
        \A i \in 1..Len(ret.plan.to_process) :
            LET item  == ret.plan.to_process[i]
                mtime == as_u64(item.mtime)
                check_suggestions == ret.request.check_suggestions
            IN  /\ item.needs_embedding => item.needs_keywords
                /\ item.needs_keywords
                      = (item.needs_embedding
                         \/ ~is_keyword_fresh(cache_index, item.path, mtime))
                /\ item.needs_suggestions
                      = (check_suggestions
                         /\ (item.needs_embedding
                             \/ ~is_suggestion_fresh(cache_index, item.path, mtime)))
                /\ ~check_suggestions => ~item.needs_suggestions
                /\ item.needs_embedding \/ item.needs_keywords \/ item.needs_suggestions

\* without check_suggestions, one item needs only its keywords although its
\* suggestion mark is stale too, and another needs its embedding while its
\* keyword mark is fresh
C18_Witness ==
    /\ Planned
    /\ ~ret.request.check_suggestions
    /\ \E i \in 1..Len(ret.plan.to_process) :
          LET item == ret.plan.to_process[i]
          IN  /\ ~item.needs_embedding /\ item.needs_keywords /\ ~item.needs_suggestions
              /\ ~is_suggestion_fresh(cache_index, item.path, as_u64(item.mtime))
    /\ \E i \in 1..Len(ret.plan.to_process) :
          LET item == ret.plan.to_process[i]
          IN  /\ item.needs_embedding /\ item.needs_keywords
              /\ is_keyword_fresh(cache_index, item.path, as_u64(item.mtime))

PathCount(path, paths) == Cardinality({j \in 1..Len(paths) : paths[j] = path})

\* C19: plan_scan partitions the listing: every listed file is once in
\* to_process (with its reported mtime) or once in to_skip and never in both,
\* nothing else is in either list, and the two lengths add up to the number
\* of files
C19_PlanPartitionsListing ==
    Planned =>
        LET files == ret.request.files
            plan  == ret.plan
        IN  /\ Len(plan.to_process) + Len(plan.to_skip) = Len(files)
            /\ \A i \in 1..Len(files) :
                  LET in_work == {j \in 1..Len(plan.to_process) :
                                     /\ plan.to_process[j].path = files[i].path
                                     /\ plan.to_process[j].mtime = files[i].mtime}
                      in_skip == PathCount(files[i].path, plan.to_skip)
                  IN  Cardinality(in_work) + in_skip = 1
            /\ \A j \in 1..Len(plan.to_process) :
                  \E i \in 1..Len(files) : files[i].path = plan.to_process[j].path
            /\ \A j \in 1..Len(plan.to_skip) :
                  \E i \in 1..Len(files) : files[i].path = plan.to_skip[j]

\* three files, of which some need work and some are skipped
C19_Witness ==
    /\ Planned
    /\ Len(ret.request.files) = 3
    /\ Len(ret.plan.to_process) = 2
    /\ Len(ret.plan.to_skip) = 1

(* Claim about a whole scan, checked under SpecConverge *)

ListedPaths(files) == [i \in 1..Len(files) |-> files[i].path]

\* C20: once the host has stored an embedding for every work item flagged
\* needs_embedding and marked every flagged artifact at the item's reported
\* mtime, a second plan_scan over the same listing with the same flag has an
\* empty work list and every file in to_skip
C20_ScanConverges ==
    ret.op = "plan_scan_again" =>
        /\ ~ret.plan.null
        /\ ret.plan.to_process = <<>>
        /\ ret.plan.to_skip = ListedPaths(ret.request.files)
        /\ ret.plan.current_file_index = None

\* the first plan had two work items, one at a fractional or negative mtime
\* and one that needed no embedding
C20_Witness ==
    /\ ret.op = "plan_scan_again"
    /\ Len(ret.first.to_process) = 2
    /\ \E i \in 1..2 : ret.first.to_process[i].mtime \notin WholeTimes
    /\ \E i \in 1..2 : ~ret.first.to_process[i].needs_embedding
    /\ \E i \in 1..2 : /\ ret.first.to_process[i].needs_embedding
                       /\ ret.first.to_process[i].path \in DOMAIN embeddings

-----------------------------------------------------------------------------
(* Rank fusion, src/src/llm.rs 234-689 *)

MaxCandidates == 3
MaxRankings == 2

BaseSuggestion(path, similarity) == [path |-> path, similarity |-> similarity]

\* index is a usize, score an f32 (here a whole number); the reason text is
\* carried through unchanged and left out
LLMRankingItem(index, score) == [index |-> index, score |-> score]

RankedSuggestion(original, llm_score) ==
    [path |-> original.path, similarity |-> original.similarity, llm_score |-> llm_score]

\* What the external model answered, by the form the parsers recognise:
\*   "lines"            lines "Document N: score - reason"; items are the lines
\*                      whose index and score parse, other lines are dropped
\*   "array"            a JSON array of ranking objects
\*   "single"           one JSON ranking object
\*   "candidates"       a JSON object with a "candidates" array
\*   "indexes"          a JSON object with an "indexes" array
\*   "garbage"          text that none of the parsers accepts
\*   "transport_error"  the call to the external model failed
ResponseKinds ==
    {"lines", "array", "single", "candidates", "indexes", "garbage", "transport_error"}

\* the line parser first, the JSON forms only when it found nothing
parse_rankings(response) ==
    CASE response.kind = "lines" ->
            IF response.items # <<>> THEN [ok |-> TRUE, llm_rankings |-> response.items]
            ELSE [ok |-> FALSE, llm_rankings |-> <<>>]
      [] response.kind \in {"array", "candidates", "indexes"} ->
            [ok |-> TRUE, llm_rankings |-> response.items]
      [] response.kind = "single" ->
            [ok |-> TRUE, llm_rankings |-> <<response.items[1]>>]
      [] OTHER -> [ok |-> FALSE, llm_rankings |-> <<>>]

\* ranking.index - 1 on a usize: index 0 underflows
Underflows(llm_rankings) == \E i \in 1..Len(llm_rankings) : llm_rankings[i].index = 0

InRange(ranking, base_suggestions) ==
    ranking.index >= 1 /\ ranking.index - 1 < Len(base_suggestions)

ranked_indices(llm_rankings, base_suggestions) ==
    {llm_rankings[i].index - 1 :
        i \in {j \in 1..Len(llm_rankings) : InRange(llm_rankings[j], base_suggestions)}}

\* the first loop: one RankedSuggestion is pushed for every ranking whose
\* index is in range (with the index wrapped, 0 is out of range)
RECURSIVE ranked_part(_, _)
ranked_part(llm_rankings, base_suggestions) ==
    IF llm_rankings = <<>> THEN <<>>
    ELSE LET n    == Len(llm_rankings)
             done == ranked_part(SubSeq(llm_rankings, 1, n - 1), base_suggestions)
             r    == llm_rankings[n]
         IN  IF InRange(r, base_suggestions)
             THEN Append(done, RankedSuggestion(base_suggestions[r.index], Some(r.score)))
             ELSE done

\* the second loop: the candidates no ranking named, in input order
RECURSIVE unranked_part(_, _)
unranked_part(indices, base_suggestions) ==
    IF base_suggestions = <<>> THEN <<>>
    ELSE LET n    == Len(base_suggestions)
             done == unranked_part(indices, SubSeq(base_suggestions, 1, n - 1))
         IN  IF (n - 1) \notin indices
             THEN Append(done, RankedSuggestion(base_suggestions[n], None))
             ELSE done

\* the f32 the line parser reads from the text "NaN"
NaN == -1

\* x.partial_cmp(&y) == Some(Ordering::Less): never with a NaN on either side
f32_lt(x, y) == x # NaN /\ y # NaN /\ x < y

\* the closure given to reranked.sort_by returns Ordering::Less; a comparison
\* with NaN is None and counts as Ordering::Equal
rank_is_less(a, b) ==
    CASE a.llm_score # None /\ b.llm_score # None -> f32_lt(b.llm_score[1], a.llm_score[1])
      [] a.llm_score # None /\ b.llm_score = None -> TRUE
      [] a.llm_score = None /\ b.llm_score # None -> FALSE
      [] OTHER -> b.similarity < a.similarity

\* the stable sort of a short slice: each element in turn moves left past
\* the elements it is less than and stops at the first it is not less than
RECURSIVE sort_reranked(_)
sort_reranked(items) ==
    IF items = <<>> THEN <<>>
    ELSE LET n      == Len(items)
             sorted == sort_reranked(SubSeq(items, 1, n - 1))
             x      == items[n]
             stops  == {i \in 1..Len(sorted) : ~rank_is_less(x, sorted[i])}
             k      == IF stops = {} THEN 0
                       ELSE CHOOSE i \in stops : \A j \in stops : j <= i
         IN  SubSeq(sorted, 1, k) \o <<x>> \o SubSeq(sorted, k + 1, Len(sorted))

RerankOk(value) == [ok |-> TRUE, panicked |-> FALSE, value |-> value]
RerankErr(message) == [ok |-> FALSE, panicked |-> FALSE, value |-> <<>>, error |-> message]
RerankPanic == [ok |-> FALSE, panicked |-> TRUE, value |-> <<>>]

fuse(llm_rankings, base_suggestions) ==
    sort_reranked(
        ranked_part(llm_rankings, base_suggestions)
        \o unranked_part(ranked_indices(llm_rankings, base_suggestions), base_suggestions))

\* The results the call can give.  An index of 0 makes `ranking.index - 1`
\* underflow: a build with overflow checks panics there, a build without them
\* wraps to usize::MAX, which is out of range, and goes on.
rerank_suggestions_with_llm(request, response) ==
    IF ~request.valid_json THEN {RerankErr("Parse suggestions error")}
    ELSE IF request.base_suggestions = <<>> THEN {RerankOk(<<>>)}
    ELSE IF response.kind = "transport_error" THEN {RerankErr("transport")}
    ELSE LET parsed == parse_rankings(response)
         IN  IF ~parsed.ok THEN {RerankErr("LLM returned invalid format")}
             ELSE {RerankOk(fuse(parsed.llm_rankings, request.base_suggestions))}
                  \cup (IF Underflows(parsed.llm_rankings) THEN {RerankPanic} ELSE {})

\* the call reads and writes nothing of the session, so one call is modelled
RerankSuggestionsWithLlm(request, response) ==
    /\ ops = 0
    /\ ops' = 1
    /\ \E result \in rerank_suggestions_with_llm(request, response) :
          ret' = [op |-> "rerank_suggestions_with_llm", request |-> request,
                  response |-> response, result |-> result]
    /\ UNCHANGED <<cache_index, embeddings, file_contents, keywords, now, bytes>>

(* The candidate lists and the responses a call is checked for *)

CandidatePath(i) == <<"n", i>>

Similarities == {40, 70}

LlmScores == {5, 8}

\* candidates come from suggest_links_for_text, one per stored path
CandidateLists ==
    UNION {{[i \in 1..n |-> BaseSuggestion(CandidatePath(i), sim[i])] :
              sim \in [1..n -> Similarities]} : n \in 0..MaxCandidates}

RankingItems ==
    {LLMRankingItem(index, score) : index \in 0..(MaxCandidates + 1), score \in LlmScores}

RankingLists == UNION {[1..n -> RankingItems] : n \in 0..MaxRankings}

\* what f32::from_str accepts in a line: a number or the text "NaN"
LineScores == LlmScores \cup {NaN}

\* lines that rank every document of a full candidate list, one line each
FullAnswers ==
    {[i \in 1..MaxCandidates |-> LLMRankingItem(i, score[i])] :
        score \in [1..MaxCandidates -> LineScores]}

Responses ==
    {[kind |-> k, items |-> items] :
        k \in {"lines", "array", "candidates", "indexes"}, items \in RankingLists}
    \cup {[kind |-> "lines", items |-> items] : items \in FullAnswers}
    \cup {[kind |-> "single", items |-> <<item>>] : item \in RankingItems}
    \cup {[kind |-> k, items |-> <<>>] : k \in {"garbage", "transport_error"}}

RerankRequests ==
    {[valid_json |-> TRUE, base_suggestions |-> c] : c \in CandidateLists}
    \cup {[valid_json |-> FALSE, base_suggestions |-> <<>>]}

InitRerank == Init

NextRerank ==
    /\ ops = 0
    /\ \E request \in RerankRequests : \E response \in Responses :
          RerankSuggestionsWithLlm(request, response)

SpecRerank == InitRerank /\ [][NextRerank]_vars

-----------------------------------------------------------------------------
(* Claims about rank fusion, checked under SpecRerank *)

Reranked == ret.op = "rerank_suggestions_with_llm" /\ ret.result.ok

Occurrences(path, seq) == Cardinality({j \in 1..Len(seq) : seq[j].path = path})

\* C4: when rank fusion succeeds the output has exactly as many elements as
\* the candidate list and every candidate appears in it exactly once, also
\* when the response names an index twice, names a subset, or names more
\* rankings than there are candidates
C4_EveryCandidateOnce ==
    Reranked =>
        LET base_suggestions == ret.request.base_suggestions
            out == ret.result.value
        IN  /\ Len(out) = Len(base_suggestions)
            /\ \A i \in 1..Len(base_suggestions) :
                  Occurrences(base_suggestions[i].path, out) = 1

\* the candidates no in-range ranking names, by position in the candidate list
UnrankedPositions(llm_rankings, base_suggestions) ==
    {i \in 1..Len(base_suggestions) :
        (i - 1) \notin ranked_indices(llm_rankings, base_suggestions)}

\* C16: in the output of a successful fusion every element with an external
\* score precedes every element without one, the scored elements are in
\* non-increasing order of external score (no element has a smaller score
\* than a later one), the unscored ones in non-increasing order of similarity,
\* and every candidate no ranking names is there without a score and with
\* its original similarity
C16_RankedFirstInOrder ==
    Reranked =>
        LET base_suggestions == ret.request.base_suggestions
            llm_rankings == parse_rankings(ret.response).llm_rankings
            out == ret.result.value
        IN  /\ \A i \in 1..Len(out) : \A j \in (i + 1)..Len(out) :
                  /\ out[i].llm_score = None => out[j].llm_score = None
                  /\ (out[i].llm_score # None /\ out[j].llm_score # None) =>
                        ~f32_lt(out[i].llm_score[1], out[j].llm_score[1])
                  /\ (out[i].llm_score = None /\ out[j].llm_score = None) =>
                        out[i].similarity >= out[j].similarity
            /\ base_suggestions # <<>> =>
                  \A i \in UnrankedPositions(llm_rankings, base_suggestions) :
                      \E j \in 1..Len(out) :
                          out[j] = RankedSuggestion(base_suggestions[i], None)

InRangeRankings(llm_rankings, base_suggestions) ==
    {i \in 1..Len(llm_rankings) : InRange(llm_rankings[i], base_suggestions)}

\* a call that reached the fusion loop with a ranking whose index is outside
\* 1..n
NamesOutOfRange ==
    /\ ret.op = "rerank_suggestions_with_llm"
    /\ ret.request.valid_json
    /\ ret.request.base_suggestions # <<>>
    /\ parse_rankings(ret.response).ok
    /\ \E i \in 1..Len(parse_rankings(ret.response).llm_rankings) :
          ~InRange(parse_rankings(ret.response).llm_rankings[i],
                   ret.request.base_suggestions)

\* C17: a ranking whose index is outside 1..n (0 or greater than n) is
\* discarded: the fusion does not fail or abort because of it, and its score
\* is attached to no candidate (the scored elements of the output are
\* exactly those of the in-range rankings)
C17_OutOfRangeDiscarded ==
    NamesOutOfRange =>
        LET base_suggestions == ret.request.base_suggestions
            llm_rankings == parse_rankings(ret.response).llm_rankings
            out == ret.result.value
            scored == {j \in 1..Len(out) : out[j].llm_score # None}
        IN  /\ ret.result.ok
            /\ Cardinality(scored)
                  = Cardinality(InRangeRankings(llm_rankings, base_suggestions))
            /\ \A j \in scored :
                  \E i \in InRangeRankings(llm_rankings, base_suggestions) :
                      out[j] = RankedSuggestion(base_suggestions[llm_rankings[i].index],
                                                Some(llm_rankings[i].score))

-----------------------------------------------------------------------------
(* Link suggestions, src/src/lib.rs 165-295 and 574-607 *)
(* Strings are sequences of one-character strings.  Scores, similarities and *)
(* thresholds are f32 in the code and whole hundredths here: 0.85 is 85.     *)

UpperLetters ==
    <<"A", "B", "C", "D", "E", "F", "G", "H", "I", "J", "K", "L", "M",
      "N", "O", "P", "Q", "R", "S", "T", "U", "V", "W", "X", "Y", "Z">>

LowerLetters ==
    <<"a", "b", "c", "d", "e", "f", "g", "h", "i", "j", "k", "l", "m",
      "n", "o", "p", "q", "r", "s", "t", "u", "v", "w", "x", "y", "z">>

Digits == {"0", "1", "2", "3", "4", "5", "6", "7", "8", "9"}

UpperSet == {UpperLetters[i] : i \in 1..Len(UpperLetters)}

LowerOf ==
    [c \in UpperSet |-> LowerLetters[CHOOSE i \in 1..Len(UpperLetters) : UpperLetters[i] = c]]

\* char::to_lowercase on the characters used
to_lowercase_char(c) == IF c \in UpperSet THEN LowerOf[c] ELSE c

to_lowercase(s) == [i \in 1..Len(s) |-> to_lowercase_char(s[i])]

is_whitespace(c) == c \in {" ", "\n"}

\* the class \w of the regex crate, on the characters used
WordChars ==
    UpperSet \cup {LowerLetters[i] : i \in 1..Len(LowerLetters)} \cup Digits \cup {"_"}

is_word_char(c) == c \in WordChars

\* the position of the first whitespace character, Len(s) + 1 when there is none
FirstWhitespace(s) ==
    LET hits == {i \in 1..Len(s) : is_whitespace(s[i])}
    IN  IF hits = {} THEN Len(s) + 1 ELSE CHOOSE i \in hits : \A j \in hits : i <= j

RECURSIVE split_whitespace(_)
split_whitespace(s) ==
    IF s = <<>> THEN <<>>
    ELSE IF is_whitespace(s[1]) THEN split_whitespace(Tail(s))
    ELSE LET n == FirstWhitespace(s)
         IN  <<SubSeq(s, 1, n - 1)>> \o split_whitespace(SubSeq(s, n, Len(s)))

\* path.rsplit('/').next(): what follows the last '/'
last_segment(path) ==
    LET slashes == {i \in 1..Len(path) : path[i] = "/"}
    IN  IF slashes = {} THEN path
        ELSE SubSeq(path, (CHOOSE i \in slashes : \A j \in slashes : j <= i) + 1, Len(path))

ends_with(s, suffix) ==
    /\ Len(suffix) <= Len(s)
    /\ SubSeq(s, Len(s) - Len(suffix) + 1, Len(s)) = suffix

\* str::trim_end_matches removes the suffix as often as it is there
RECURSIVE trim_end_matches(_, _)
trim_end_matches(s, suffix) ==
    IF ends_with(s, suffix)
    THEN trim_end_matches(SubSeq(s, 1, Len(s) - Len(suffix)), suffix)
    ELSE s

DotMd == <<".", "m", "d">>

extract_title_from_path(path) == trim_end_matches(last_segment(path), DotMd)

\* the regex assertion \b between positions k and k + 1 of the text
word_boundary(text, k) ==
    LET left  == k >= 1 /\ is_word_char(text[k])
        right == k + 1 <= Len(text) /\ is_word_char(text[k + 1])
    IN  left # right

\* Regex::new(format!(r"\b{}\b", regex::escape(word))).is_match(text)
word_regex_is_match(word, text) ==
    \E i \in 1..(Len(text) - Len(word) + 1) :
        /\ SubSeq(text, i, i + Len(word) - 1) = word
        /\ word_boundary(text, i - 1)
        /\ word_boundary(text, i + Len(word) - 1)

RECURSIVE dot_product(_, _)
dot_product(a, b) ==
    IF a = <<>> THEN 0 ELSE a[1] * b[1] + dot_product(Tail(a), Tail(b))

\* sqrt, exact on the vectors used (their squared lengths are squares)
sqrt(n) == CHOOSE r \in 0..n : r * r <= n /\ n < (r + 1) * (r + 1)

\* a similarity that pairs the components up to the shorter length, as zip
\* does, without comparing the lengths first
cosine_similarity_zip(a, b) ==
    LET n  == IF Len(a) < Len(b) THEN Len(a) ELSE Len(b)
        magnitude_a == sqrt(dot_product(a, a))
        magnitude_b == sqrt(dot_product(b, b))
    IN  IF magnitude_a = 0 \/ magnitude_b = 0 THEN 0
        ELSE (100 * dot_product(SubSeq(a, 1, n), SubSeq(b, 1, n)))
                \div (magnitude_a * magnitude_b)

cosine_similarity(a, b) ==
    IF Len(a) # Len(b) THEN 0
    ELSE LET magnitude_a == sqrt(dot_product(a, a))
             magnitude_b == sqrt(dot_product(b, b))
         IN  IF magnitude_a = 0 \/ magnitude_b = 0 THEN 0
             ELSE (100 * dot_product(a, b)) \div (magnitude_a * magnitude_b)

\* str::lines, for contents that do not end in a line break
RECURSIVE lines(_)
lines(s) ==
    LET breaks == {i \in 1..Len(s) : s[i] = "\n"}
    IN  IF breaks = {} THEN <<s>>
        ELSE LET n == CHOOSE i \in breaks : \A j \in breaks : i <= j
             IN  <<SubSeq(s, 1, n - 1)>> \o lines(SubSeq(s, n + 1, Len(s)))

RECURSIVE join(_, _)
join(parts, sep) ==
    IF parts = <<>> THEN <<>>
    ELSE IF Len(parts) = 1 THEN parts[1]
    ELSE parts[1] \o sep \o join(Tail(parts), sep)

extract_context(content, max_chars) ==
    LET all     == IF content = <<>> THEN <<>> ELSE lines(content)
        context == join(SubSeq(all, 1, IF Len(all) < 5 THEN Len(all) ELSE 5), <<" ">>)
    IN  IF Len(context) > max_chars
        THEN SubSeq(context, 1, max_chars) \o <<".", ".", ".">>
        ELSE context

\* PRIORITY 0: the forced inclusion and its boost
mandatory_boost(text_lower, note_title_lower) ==
    LET title_words == split_whitespace(note_title_lower)
    IN  IF Len(title_words) = 1
        THEN IF word_regex_is_match(title_words[1], text_lower)
             THEN [force_include |-> TRUE, boost |-> 50]
             ELSE [force_include |-> FALSE, boost |-> 0]
        ELSE IF contains(text_lower, note_title_lower)
             THEN [force_include |-> TRUE, boost |-> 30]
             ELSE [force_include |-> FALSE, boost |-> 0]

\* 0.05 for every keyword found, with no cap
keyword_boost_uncapped(text_lower, kws, path) ==
    IF path \notin DOMAIN kws THEN 0
    ELSE 5 * Cardinality({i \in 1..Len(kws[path]) :
                             contains(text_lower, to_lowercase(kws[path][i]))})

\* PRIORITY 2: (count * 0.05).min(0.2) for the keywords found in the text
keyword_boost(text_lower, kws, path) ==
    IF path \notin DOMAIN kws THEN 0
    ELSE LET keyword_match_count ==
                 Cardinality({i \in 1..Len(kws[path]) :
                                 contains(text_lower, to_lowercase(kws[path][i]))})
         IN  IF 5 * keyword_match_count < 20 THEN 5 * keyword_match_count ELSE 20

\* a boost that leaves out the test for equal titles
title_boost_unguarded(note_title_lower, current_title_lower) ==
    (IF contains(note_title_lower, current_title_lower) THEN 10 ELSE 0)
    + (IF contains(current_title_lower, note_title_lower) THEN 10 ELSE 0)

\* PRIORITY 3: the two title relationship tests
title_boost(note_title_lower, current_title_lower) ==
    (IF contains(note_title_lower, current_title_lower)
        /\ note_title_lower # current_title_lower THEN 10 ELSE 0)
    + (IF contains(current_title_lower, note_title_lower)
         /\ note_title_lower # current_title_lower THEN 10 ELSE 0)

\* one pass of the loop body up to the inclusion test
score_candidate(emb, kws, request, path) ==
    LET text_lower          == to_lowercase(request.text)
        base                == cosine_similarity(request.query_embedding, emb[path])
        note_title          == extract_title_from_path(path)
        note_title_lower    == to_lowercase(note_title)
        mandatory           == mandatory_boost(text_lower, note_title_lower)
        current_title_lower == to_lowercase(extract_title_from_path(request.current_file_path))
        keyword             == keyword_boost(text_lower, kws, path)
        title               == title_boost(note_title_lower, current_title_lower)
    IN  [ path          |-> path,
          title         |-> note_title,
          base          |-> base,
          force_include |-> mandatory.force_include,
          mandatory     |-> mandatory.boost,
          keyword       |-> keyword,
          title_boost   |-> title,
          similarity    |-> base + mandatory.boost + keyword + title ]

\* a test that also lets a score equal to the effective threshold pass
at_or_above_effective_threshold(similarity, threshold) == 100 * similarity >= 85 * threshold

\* similarity > threshold * 0.85, in hundredths of hundredths
above_effective_threshold(similarity, threshold) == 100 * similarity > 85 * threshold

link_pattern(note_title) == <<"[", "[">> \o note_title \o <<"]", "]">>

\* a loop body that keeps a force-included candidate although its link exists
is_suggested_forced_past_link(emb, contents, kws, request, path) ==
    LET scored == score_candidate(emb, kws, request, path)
    IN  /\ path # request.current_file_path
        /\ scored.force_include \/ above_effective_threshold(scored.similarity, request.threshold)
        /\ path \in DOMAIN contents
        /\ scored.force_include \/ ~contains(request.text, link_pattern(scored.title))

\* whether the loop body pushes a suggestion for the path
is_suggested(emb, contents, kws, request, path) ==
    LET scored == score_candidate(emb, kws, request, path)
    IN  /\ path # request.current_file_path
        /\ scored.force_include \/ above_effective_threshold(scored.similarity, request.threshold)
        /\ path \in DOMAIN contents
        /\ ~contains(request.text, link_pattern(scored.title))

LinkSuggestion(scored, content) ==
    [ path       |-> scored.path,
      title      |-> scored.title,
      similarity |-> scored.similarity,
      context    |-> extract_context(content, 100) ]

\* a loop that pushes a candidate whose content is not loaded, with an empty
\* context and no test for an existing link
collect_suggestions_without_content(emb, contents, kws, request, order) ==
    LET pushed(path) ==
            LET scored == score_candidate(emb, kws, request, path)
            IN  /\ path # request.current_file_path
                /\ scored.force_include
                      \/ above_effective_threshold(scored.similarity, request.threshold)
                /\ path \in DOMAIN contents
                      => ~contains(request.text, link_pattern(scored.title))
        all == [i \in 1..Len(order) |->
                   LET scored == score_candidate(emb, kws, request, order[i])
                   IN  [path |-> scored.path, title |-> scored.title,
                        similarity |-> scored.similarity, context |-> <<>>]]
    IN  SelectSeq(all, LAMBDA x : pushed(x.path))

\* the loop over self.embeddings, in the order the HashMap gives the paths
RECURSIVE collect_suggestions(_, _, _, _, _)
collect_suggestions(emb, contents, kws, request, order) ==
    IF order = <<>> THEN <<>>
    ELSE LET n    == Len(order)
             done == collect_suggestions(emb, contents, kws, request, SubSeq(order, 1, n - 1))
             path == order[n]
         IN  IF is_suggested(emb, contents, kws, request, path)
             THEN Append(done, LinkSuggestion(score_candidate(emb, kws, request, path),
                                              contents[path]))
             ELSE done

\* the suggestions left in the order the loop pushed them
sort_suggestions_as_pushed(items) == items

\* suggestions.sort_by(|a, b| b.similarity.partial_cmp(&a.similarity)), stable
RECURSIVE sort_suggestions(_)
sort_suggestions(items) ==
    IF items = <<>> THEN <<>>
    ELSE LET n      == Len(items)
             sorted == sort_suggestions(SubSeq(items, 1, n - 1))
             x      == items[n]
             after  == {i \in 1..Len(sorted) : sorted[i].similarity < x.similarity}
             k      == IF after = {} THEN Len(sorted) + 1
                       ELSE CHOOSE i \in after : \A j \in after : i <= j
         IN  SubSeq(sorted, 1, k - 1) \o <<x>> \o SubSeq(sorted, k, Len(sorted))

truncate(items, len) == IF len < Len(items) THEN SubSeq(items, 1, len) ELSE items

\* the sorted suggestions before the cut to top_k, and the returned list
suggest_links_for_text(emb, contents, kws, request, order) ==
    LET kept == sort_suggestions(collect_suggestions(emb, contents, kws, request, order))
    IN  [kept |-> kept, result |-> truncate(kept, request.top_k)]

\* the call takes &self and changes nothing
SuggestLinksForText(request) ==
    /\ Step
    /\ \E order \in Orders(DOMAIN embeddings) :
          LET out == suggest_links_for_text(embeddings, file_contents, keywords, request, order)
          IN  ret' = [op |-> "suggest_links_for_text", request |-> request,
                      kept |-> out.kept, result |-> out.result]
    /\ UNCHANGED <<cache_index, embeddings, file_contents, keywords, now, bytes>>

(* The sessions and the requests suggestions are computed for *)

\* "Turbulence.md"
TurbulencePath ==
    <<"T", "u", "r", "b", "u", "l", "e", "n", "c", "e", ".", "m", "d">>

\* "notes/Strong Turbulence.md"
StrongTurbulencePath ==
    <<"n", "o", "t", "e", "s", "/", "S", "t", "r", "o", "n", "g", " ", "T", "u", "r",
      "b", "u", "l", "e", "n", "c", "e", ".", "m", "d">>

\* "lang/C++.md"
CppPath ==
    <<"l", "a", "n", "g", "/", "C", "+", "+", ".", "m", "d">>

\* "old/turbulence.md"
OldTurbulencePath ==
    <<"o", "l", "d", "/", "t", "u", "r", "b", "u", "l", "e", "n", "c", "e", ".", "m",
      "d">>

\* ""
NoPath ==
    <<>>

\* "The turbulence model breaks down"
ModelText ==
    <<"T", "h", "e", " ", "t", "u", "r", "b", "u", "l", "e", "n", "c", "e", " ", "m",
      "o", "d", "e", "l", " ", "b", "r", "e", "a", "k", "s", " ", "d", "o", "w", "n">>

\* "Strong turbulence, see [[Turbulence]]"
LinkedText ==
    <<"S", "t", "r", "o", "n", "g", " ", "t", "u", "r", "b", "u", "l", "e", "n", "c",
      "e", ",", " ", "s", "e", "e", " ", "[", "[", "T", "u", "r", "b", "u", "l", "e",
      "n", "c", "e", "]", "]">>

\* "Use C++ for nonturbulence"
CppText ==
    <<"U", "s", "e", " ", "C", "+", "+", " ", "f", "o", "r", " ", "n", "o", "n", "t",
      "u", "r", "b", "u", "l", "e", "n", "c", "e">>

\* ""
EmptyText ==
    <<>>

\* "x"
SomeContent ==
    <<"x">>

\* "Model"
ModelKeyword ==
    <<"M", "o", "d", "e", "l">>

\* "flow"
FlowKeyword ==
    <<"f", "l", "o", "w">>

\* the query and the stored vectors: cosine 0.10, 0.80 and 1.00 with the query
QueryVector == <<1, 0, 0, 0>>
FarVector == <<1, 9, 3, 3>>
NearVector == <<4, 3, 0, 0>>

NotePaths == {TurbulencePath, StrongTurbulencePath, CppPath}

\* per note: no vector, or one of two vectors; its content loaded or not
SuggestEmbeddings ==
    UNION {[S -> {FarVector, NearVector}] : S \in SUBSET NotePaths}

SuggestContents == UNION {[S -> {SomeContent}] : S \in SUBSET NotePaths}

SuggestKeywords ==
    {EmptyMap,
     [p \in {TurbulencePath, CppPath} |->
        IF p = TurbulencePath THEN <<ModelKeyword, FlowKeyword>> ELSE <<ModelKeyword>>]}

Thresholds == {0, 80, 100}

TopKs == {0, 1, 5}

SuggestRequests ==
    [ text              : {ModelText, LinkedText, CppText, EmptyText},
      query_embedding   : {QueryVector},
      threshold         : Thresholds,
      current_file_path : {NoPath, TurbulencePath, OldTurbulencePath, StrongTurbulencePath},
      top_k             : TopKs ]

InitSuggest ==
    /\ cache_index = CacheIndex_new
    /\ embeddings \in SuggestEmbeddings
    /\ file_contents \in SuggestContents
    /\ keywords \in SuggestKeywords
    /\ now = 0
    /\ bytes = NoBytes
    /\ ops = 0
    /\ ret = NoRet

\* a second call in the same session is computed from the same stores, so one
\* call per session is explored
NextSuggest == ops = 0 /\ \E request \in SuggestRequests : SuggestLinksForText(request)

SpecSuggest == InitSuggest /\ [][NextSuggest]_vars

-----------------------------------------------------------------------------
(* Claims about link suggestions, checked under SpecSuggest *)

Suggested == ret.op = "suggest_links_for_text"

Candidates == DOMAIN embeddings \ {ret.request.current_file_path}

Scored(path) == score_candidate(embeddings, keywords, ret.request, path)

PathsIn(list) == {list[i].path : i \in 1..Len(list)}

\* the word stands in the text with no letter, digit or underscore next to it
OccursAsWholeWord(word, text) ==
    \E i \in 1..(Len(text) - Len(word) + 1) :
        /\ SubSeq(text, i, i + Len(word) - 1) = word
        /\ i = 1 \/ ~is_word_char(text[i - 1])
        /\ i + Len(word) > Len(text) \/ ~is_word_char(text[i + Len(word)])

SingleWordTitleInText(path) ==
    LET title_words == split_whitespace(to_lowercase(extract_title_from_path(path)))
    IN  /\ Len(title_words) = 1
        /\ OccursAsWholeWord(title_words[1], to_lowercase(ret.request.text))

Linkable(path) ==
    /\ path \in DOMAIN file_contents
    /\ ~contains(ret.request.text, link_pattern(extract_title_from_path(path)))

\* C8: a candidate with stored content and no [[Title]] link in the text, whose
\* title is a single word that occurs in the text as a whole word, whatever the
\* case, is among the suggestions whatever the threshold, with a score at
\* least 0.50 above its cosine similarity; it is in the returned list unless
\* the cut to top_k removes it
C8_WholeWordTitleIncluded ==
    Suggested =>
        \A path \in Candidates :
            (Linkable(path) /\ SingleWordTitleInText(path)) =>
                /\ \E i \in 1..Len(ret.kept) :
                      /\ ret.kept[i].path = path
                      /\ ret.kept[i].similarity
                            >= cosine_similarity(ret.request.query_embedding,
                                                 embeddings[path]) + 50
                /\ Len(ret.kept) <= ret.request.top_k => path \in PathsIn(ret.result)

\* C21: a stored document other than the current file, with stored content
\* and no [[Title]] marker in the text, is among the suggestions before the
\* cut to top_k exactly when it was force-included or its boosted score is
\* strictly greater than 0.85 times the threshold; with a score equal to
\* 0.85 times the threshold and no force-inclusion it is left out
C21_InclusionTest ==
    Suggested =>
        \A path \in Candidates :
            Linkable(path) =>
                LET score     == Scored(path).similarity
                    forced    == Scored(path).force_include
                    threshold == ret.request.threshold
                IN  /\ path \in PathsIn(ret.kept)
                          <=> (forced \/ 100 * score > 85 * threshold)
                    /\ (~forced /\ 100 * score = 85 * threshold)
                          => path \notin PathsIn(ret.kept)

\* threshold 1.00: "C++" scores 0.80 + 0.05 = 0.85 and is left out, while
\* the force-included "Turbulence" is in
C21_Witness ==
    /\ Suggested
    /\ ret.request.threshold = 100
    /\ CppPath \in Candidates
    /\ Linkable(CppPath)
    /\ ~Scored(CppPath).force_include
    /\ Scored(CppPath).similarity = 85
    /\ CppPath \notin PathsIn(ret.kept)
    /\ TurbulencePath \in PathsIn(ret.kept)

\* C22: no suggestion, before or after the cut to top_k, has a title T for
\* which the text contains the marker [[T]], force-included candidates
\* included
C22_NoSuggestionAlreadyLinked ==
    Suggested =>
        /\ \A i \in 1..Len(ret.kept) :
              ~contains(ret.request.text, <<"[", "[">> \o ret.kept[i].title \o <<"]", "]">>)
        /\ \A i \in 1..Len(ret.result) :
              ~contains(ret.request.text, <<"[", "[">> \o ret.result[i].title \o <<"]", "]">>)
        /\ \A path \in Candidates :
              contains(ret.request.text,
                       <<"[", "[">> \o extract_title_from_path(path) \o <<"]", "]">>)
                  => path \notin PathsIn(ret.kept)

\* "Strong turbulence, see [[Turbulence]]": the note "Turbulence" is
\* force-included by its title and dropped for its marker, while another
\* note is suggested
C22_Witness ==
    /\ Suggested
    /\ ret.request.text = LinkedText
    /\ TurbulencePath \in Candidates
    /\ TurbulencePath \in DOMAIN file_contents
    /\ Scored(TurbulencePath).force_include
    /\ TurbulencePath \notin PathsIn(ret.kept)
    /\ ret.result # <<>>

\* C23: the returned list is in non-increasing order of boosted score and
\* has at most top_k elements (all suggestions when there are no more than
\* top_k); no suggestion that was cut has a strictly higher score than one
\* that is returned; the current file's own path is never returned
C23_SortedTopK ==
    Suggested =>
        /\ \A i \in 1..Len(ret.result) : \A j \in (i + 1)..Len(ret.result) :
              ret.result[i].similarity >= ret.result[j].similarity
        /\ Len(ret.result) <= ret.request.top_k
        /\ Len(ret.kept) <= ret.request.top_k => PathsIn(ret.result) = PathsIn(ret.kept)
        /\ \A path \in PathsIn(ret.kept) \ PathsIn(ret.result) :
              \A i \in 1..Len(ret.result) :
                  Scored(path).similarity <= ret.result[i].similarity
        /\ PathsIn(ret.result) \subseteq PathsIn(ret.kept)
        /\ \A i \in 1..Len(ret.result) :
              /\ ret.result[i].path # ret.request.current_file_path
              /\ ret.result[i].similarity = Scored(ret.result[i].path).similarity

\* two suggestions with different scores and top_k = 1: the higher one is
\* returned; the current file has a stored vector and content
C23_Witness ==
    /\ Suggested
    /\ ret.request.top_k = 1
    /\ Len(ret.kept) = 2
    /\ Len(ret.result) = 1
    /\ \E i \in 1..2 : ret.kept[i].similarity < ret.result[1].similarity
    /\ ret.request.current_file_path \in DOMAIN embeddings
    /\ ret.request.current_file_path \in DOMAIN file_contents

Restrict(map, keys) == [k \in (DOMAIN map) \cap keys |-> map[k]]

\* C25: a stored document with a vector and no stored content is never
\* among the suggestions, whatever its score and also when it is
\* force-included; the call gives for the other documents what it gives
\* when the documents without content are not stored at all
C25_NoContentNoSuggestion ==
    Suggested =>
        LET loaded == Restrict(embeddings, DOMAIN file_contents)
            order  == CHOOSE o \in Orders(DOMAIN loaded) : TRUE
            alone  == suggest_links_for_text(loaded, file_contents, keywords,
                                             ret.request, order)
        IN  /\ \A path \in (DOMAIN embeddings) \ (DOMAIN file_contents) :
                  path \notin PathsIn(ret.kept) /\ path \notin PathsIn(ret.result)
            /\ Elems(ret.kept) = Elems(alone.kept)
            /\ Len(ret.result) = Len(alone.result)

\* "Turbulence" has a vector and no content and its title stands in the
\* text; it is absent while another document is suggested
C25_Witness ==
    /\ Suggested
    /\ TurbulencePath \in Candidates
    /\ TurbulencePath \notin DOMAIN file_contents
    /\ Scored(TurbulencePath).force_include
    /\ TurbulencePath \notin PathsIn(ret.result)
    /\ ret.result # <<>>

StrictlyInside(inner, outer) ==
    /\ Len(inner) < Len(outer)
    /\ \E i \in 1..(Len(outer) - Len(inner) + 1) :
          SubSeq(outer, i, i + Len(inner) - 1) = inner

\* C9: the title-containment boost of a candidate is 0 or +0.10: +0.10 when
\* one of the two lower-cased titles strictly contains the other, 0 when they
\* are equal, and never +0.20
C9_TitleBoostOnce ==
    Suggested =>
        \A path \in Candidates :
            LET note_title    == to_lowercase(extract_title_from_path(path))
                current_title == to_lowercase(extract_title_from_path(ret.request.current_file_path))
                applied       == Scored(path).similarity - Scored(path).base
                                    - Scored(path).mandatory - Scored(path).keyword
            IN  /\ applied \in {0, 10}
                /\ (StrictlyInside(note_title, current_title)
                      \/ StrictlyInside(current_title, note_title)) => applied = 10
                /\ note_title = current_title => applied = 0
                /\ \A i \in 1..Len(ret.kept) :
                      ret.kept[i].path = path =>
                          ret.kept[i].similarity = Scored(path).base + Scored(path).mandatory
                                                      + Scored(path).keyword + applied

\* the scenario of the specification: candidate "Strong Turbulence", current
\* document "Turbulence", boosted once from 0.80 to 0.90, next to a candidate
\* "C++" that gets no title boost
C9_Witness ==
    /\ Suggested
    /\ ret.request.current_file_path = TurbulencePath
    /\ ret.request.text = ModelText
    /\ StrongTurbulencePath \in DOMAIN embeddings
    /\ embeddings[StrongTurbulencePath] = NearVector
    /\ \E i \in 1..Len(ret.result) :
          /\ ret.result[i].path = StrongTurbulencePath
          /\ ret.result[i].similarity = 90
    /\ \E i \in 1..Len(ret.result) :
          /\ ret.result[i].path = CppPath
          /\ ret.result[i].similarity = 80

-----------------------------------------------------------------------------
(* cosine_similarity on its own, src/src/lib.rs 574-588 *)

MaxDim == 2

Components == {-4, -3, 0, 3, 4}

\* the vectors of up to MaxDim components whose length is a whole number
CosineVectors ==
    {v \in UNION {[1..n -> Components] : n \in 0..MaxDim} :
        sqrt(dot_product(v, v)) * sqrt(dot_product(v, v)) = dot_product(v, v)}

CosineSimilarity(a, b) ==
    /\ ops = 0
    /\ ops' = 1
    /\ ret' = [op |-> "cosine_similarity", a |-> a, b |-> b,
               value |-> cosine_similarity(a, b)]
    /\ UNCHANGED <<cache_index, embeddings, file_contents, keywords, now, bytes>>

InitCosine == Init

NextCosine ==
    /\ ops = 0
    /\ \E a \in CosineVectors : \E b \in CosineVectors : CosineSimilarity(a, b)

SpecCosine == InitCosine /\ [][NextCosine]_vars

(* Claims about cosine_similarity, checked under SpecCosine *)

ZeroNorm(v) == \A i \in 1..Len(v) : v[i] = 0

\* C11: cosine_similarity returns a value for every pair of vectors; the value
\* is 0 when the lengths differ, when a vector is empty or when a vector has
\* zero norm; and it is the same with the arguments exchanged
C11_CosineTotalZeroSymmetric ==
    ret.op = "cosine_similarity" =>
        /\ ret.value \in (-100)..100
        /\ (Len(ret.a) # Len(ret.b) \/ ret.a = <<>> \/ ret.b = <<>>
              \/ ZeroNorm(ret.a) \/ ZeroNorm(ret.b)) => ret.value = 0
        /\ ret.value = cosine_similarity(ret.b, ret.a)

\* vectors of different lengths that agree where both have a component
C11_Witness ==
    /\ ret.op = "cosine_similarity"
    /\ ret.a = <<3>>
    /\ ret.b = <<3, 4>>
    /\ ret.value = 0

-----------------------------------------------------------------------------
(* Loading persisted bytes, src/src/lib.rs 105-128 and 410-430 *)

F32(x) == [t |-> "f32", v |-> x]

VectorNode(vector) == Arr([j \in DOMAIN vector |-> F32(vector[j])])

\* rmp_serde::to_vec of a HashMap<String, Vec<f32>>
Embeddings_to_msgpack(emb, order) ==
    MMap([i \in DOMAIN order |-> <<Str(order[i]), VectorNode(emb[order[i]])>>])

\* serialize_embeddings_binary: the same under the version envelope
serialize_embeddings_binary(emb, order, date_now) ==
    Arr(<< Arr(<< UInt(1), Str("msgpack"), UInt(date_now) >>),
           Embeddings_to_msgpack(emb, order) >>)

IsMsgpackEmbeddings(node) ==
    /\ node.t = "map"
    /\ \A i \in DOMAIN node.v :
          /\ node.v[i][1].t = "str"
          /\ node.v[i][2].t = "arr"
          /\ \A j \in DOMAIN node.v[i][2].v : node.v[i][2].v[j].t = "f32"

RECURSIVE Embeddings_from_msgpack(_)
Embeddings_from_msgpack(entries) ==
    IF entries = <<>> THEN EmptyMap
    ELSE LET n == Len(entries)
             vector == [j \in DOMAIN entries[n][2].v |-> entries[n][2].v[j].v]
         IN  MapInsert(Embeddings_from_msgpack(SubSeq(entries, 1, n - 1)),
                       entries[n][1].v, vector)

\* the envelope first, then the raw HashMap; an Err leaves self.embeddings
deserialize_embeddings_binary(emb, data) ==
    IF /\ data.t = "arr"
       /\ Len(data.v) = 2
       /\ IsMsgpackHeader(data.v[1])
       /\ IsMsgpackEmbeddings(data.v[2])
    THEN [ok |-> TRUE, embeddings |-> Embeddings_from_msgpack(data.v[2].v)]
    ELSE IF IsMsgpackEmbeddings(data)
    THEN [ok |-> TRUE, embeddings |-> Embeddings_from_msgpack(data.v)]
    ELSE [ok |-> FALSE, embeddings |-> emb]

DeserializeEmbeddingsBinary ==
    /\ Step
    /\ LET r == deserialize_embeddings_binary(embeddings, bytes)
       IN  /\ embeddings' = r.embeddings
           /\ ret' = [op |-> "deserialize_embeddings_binary", ok |-> r.ok]
    /\ UNCHANGED <<cache_index, file_contents, keywords, now, bytes>>

(* The sessions and the persisted files a load is checked for *)

SessionIndex ==
    [CacheIndex_new EXCEPT !.keyword_mtimes = [p \in {<<"a">>} |-> 0]]

PayloadIndex ==
    [CacheIndex_new EXCEPT
        !.embedding_mtimes = [p \in {<<"a">>, <<"b">>} |-> IF p = <<"a">> THEN 1 ELSE 0],
        !.ignored_suggestions = [k \in {make_ignored_key(<<"a">>, <<"b">>)} |-> 1],
        !.insertion_cache = [k \in {make_insertion_key(<<"a">>, <<"t">>)} |-> <<"1">>]]

PayloadIndices == {CacheIndex_new, PayloadIndex}

SessionEmbeddings == [p \in {TurbulencePath} |-> FarVector]

PayloadEmbeddings ==
    [p \in {TurbulencePath, StrongTurbulencePath} |->
        IF p = TurbulencePath THEN NearVector ELSE FarVector]

PayloadStores == {EmptyMap, PayloadEmbeddings}

EnvelopedIndexFiles ==
    UNION {{to_msgpack(VersionedCache_new(ci, "msgpack", date_now), o) :
              o \in IterationOrders(ci), date_now \in 0..MaxClock} : ci \in PayloadIndices}

LegacyIndexFiles ==
    UNION {{CacheIndex_to_msgpack(ci, o) : o \in IterationOrders(ci)} : ci \in PayloadIndices}

EnvelopedEmbeddingFiles ==
    UNION {{serialize_embeddings_binary(emb, o, date_now) :
              o \in Orders(DOMAIN emb), date_now \in 0..MaxClock} : emb \in PayloadStores}

LegacyEmbeddingFiles ==
    UNION {{Embeddings_to_msgpack(emb, o) : o \in Orders(DOMAIN emb)} : emb \in PayloadStores}

\* files no decoder accepts: an empty array, an index cut short, an envelope
\* whose header lacks a field, a string
EmptyArrayFile == Arr(<<>>)

ShortIndexFile == Arr(<<MMap(<<>>), MMap(<<>>), MMap(<<>>), MMap(<<>>)>>)

ShortHeaderFile ==
    Arr(<<Arr(<<UInt(1), Str("msgpack")>>),
          CacheIndex_to_msgpack(CacheIndex_new, [nm \in CacheIndexFields |-> <<>>])>>)

StringFile == Str(<<"x">>)

\* the file the host hands to the loader
StoredFile(file) ==
    \/ file \in EnvelopedIndexFiles
    \/ file \in LegacyIndexFiles
    \/ file \in EnvelopedEmbeddingFiles
    \/ file \in LegacyEmbeddingFiles
    \/ file = EmptyArrayFile
    \/ file = ShortIndexFile
    \/ file = ShortHeaderFile
    \/ file = StringFile

LoadRequests ==
    [ text              : {ModelText, CppText},
      query_embedding   : {QueryVector},
      threshold         : {80},
      current_file_path : {NoPath},
      top_k             : {5} ]

InitLoad ==
    /\ cache_index \in {CacheIndex_new, SessionIndex}
    /\ embeddings = SessionEmbeddings
    /\ file_contents = [p \in {TurbulencePath, StrongTurbulencePath} |-> SomeContent]
    /\ keywords = [p \in {TurbulencePath} |-> <<ModelKeyword>>]
    /\ now = 0
    /\ StoredFile(bytes)
    /\ ops = 0
    /\ ret = NoRet

NextLoad ==
    \/ DeserializeCacheIndex
    \/ DeserializeEmbeddingsBinary
    \/ \E request \in LoadRequests : SuggestLinksForText(request)

SpecLoad == InitLoad /\ [][NextLoad]_vars

-----------------------------------------------------------------------------
(* Claims about loading, checked under SpecLoad *)

\* the file is the bare encoding of the index, in some iteration order
IsLegacyIndexFile(file, ci) ==
    /\ file.t = "arr"
    /\ Len(file.v) = 5
    /\ \E o \in IterationOrders(ci) : file = CacheIndex_to_msgpack(ci, o)

\* the file is the index under a version envelope
IsEnvelopedIndexFile(file, ci) ==
    /\ file.t = "arr"
    /\ Len(file.v) = 2
    /\ file.v[1].t = "arr"
    /\ Len(file.v[1].v) = 3
    /\ file.v[2].t = "arr"
    /\ \E o \in IterationOrders(ci) : \E date_now \in 0..MaxClock :
          file = to_msgpack(VersionedCache_new(ci, "msgpack", date_now), o)

IsLegacyEmbeddingFile(file, emb) ==
    /\ file.t = "map"
    /\ \E o \in Orders(DOMAIN emb) : file = Embeddings_to_msgpack(emb, o)

IsEnvelopedEmbeddingFile(file, emb) ==
    /\ file.t = "arr"
    /\ Len(file.v) = 2
    /\ file.v[1].t = "arr"
    /\ Len(file.v[1].v) = 3
    /\ file.v[2].t = "map"
    /\ \E o \in Orders(DOMAIN emb) : \E date_now \in 0..MaxClock :
          file = serialize_embeddings_binary(emb, o, date_now)

\* C12: bytes that encode the bare payload, without the envelope, are loaded
\* and the loaded state is that payload; bytes that carry the envelope are
\* loaded as the envelope's data; for the cache index and for the embeddings
C12_LegacyFallback ==
    /\ ret.op = "deserialize_cache_index" =>
          \A ci \in PayloadIndices :
              (IsLegacyIndexFile(bytes, ci) \/ IsEnvelopedIndexFile(bytes, ci))
                  => (ret.ok /\ cache_index = ci)
    /\ ret.op = "deserialize_embeddings_binary" =>
          \A emb \in PayloadStores :
              (IsLegacyEmbeddingFile(bytes, emb) \/ IsEnvelopedEmbeddingFile(bytes, emb))
                  => (ret.ok /\ embeddings = emb)

\* a legacy file of a non-empty index was loaded over another index
C12_Witness ==
    /\ ret.op = "deserialize_cache_index"
    /\ ret.ok
    /\ ops = 1
    /\ IsLegacyIndexFile(bytes, PayloadIndex)
    /\ cache_index = PayloadIndex

\* C13: when both decodes fail, deserialize_cache_index reports an error and
\* the cache index, the embeddings, the keywords and the file contents are as
\* before the call; a suggest_links_for_text that follows gives the result of
\* the stores as they were before the call
C13_FailedLoadChangesNothing ==
    [][ /\ (ret'.op = "deserialize_cache_index" /\ ~ret'.ok) =>
              /\ cache_index' = cache_index
              /\ embeddings' = embeddings
              /\ keywords' = keywords
              /\ file_contents' = file_contents
        /\ (ret.op = "deserialize_cache_index" /\ ~ret.ok
              /\ ret'.op = "suggest_links_for_text") =>
              \E order \in Orders(DOMAIN embeddings) :
                  ret'.result = suggest_links_for_text(embeddings, file_contents, keywords,
                                                       ret'.request, order).result
      ]_vars

\* a corrupt file was refused by a session that holds an index and a vector
C13_Witness ==
    /\ ret.op = "deserialize_cache_index"
    /\ ~ret.ok
    /\ bytes.t = "str"
    /\ cache_index = SessionIndex
    /\ embeddings = SessionEmbeddings

-----------------------------------------------------------------------------
(* Claims about the counts of invalidation, checked under Spec *)

TotalSize(ci) ==
    Cardinality(DOMAIN ci.embedding_mtimes) + Cardinality(DOMAIN ci.keyword_mtimes)
        + Cardinality(DOMAIN ci.suggestion_mtimes) + Cardinality(DOMAIN ci.insertion_cache)

\* C14, as stated: invalidating a path returns the number of entries removed
\* from the three mtime maps and the insertion cache, the size of the cache
\* before the call minus its size after
C14_InvalidateReturnsCount ==
    [][ ops' = ops + 1 /\ ret'.op = "invalidate_file" =>
            ret'.returned = Some(TotalSize(cache_index) - TotalSize(cache_index')) ]_vars

\* C14, amended: invalidate_file_caches returns nothing; the call that returns
\* a count is invalidate_insertion_cache_for_file, whose count is the number
\* of insertion-cache entries before the call minus the number after, and
\* which leaves the three mtime maps as they were
C14_OnlyInsertionInvalidateCounts ==
    [][ /\ ops' = ops + 1 /\ ret'.op = "invalidate_file" => ret'.returned = None
        /\ ops' = ops + 1 /\ ret'.op = "invalidate_insertion_cache_for_file" =>
              /\ ret'.returned = Some(Cardinality(DOMAIN cache_index.insertion_cache)
                                        - Cardinality(DOMAIN cache_index'.insertion_cache))
              /\ \A kind \in Kinds : mtime_map(cache_index', kind) = mtime_map(cache_index, kind)
      ]_vars

\* one insertion entry was removed and counted while an mtime entry of the
\* same path stayed
C14_Witness ==
    /\ ret.op = "invalidate_insertion_cache_for_file"
    /\ ret.returned = Some(1)
    /\ \E kind \in Kinds : ret.path \in DOMAIN mtime_map(cache_index, kind)

-----------------------------------------------------------------------------
(* The freshness calls of SmartVault with the host's numbers,
   src/src/lib.rs 302-329 *)

\* is_embedding_fresh / is_keyword_fresh / is_suggestion_fresh: a read of the
\* cache with current_mtime as u64
IsFresh(kind, path, host) ==
    /\ Step
    /\ ret' = [op |-> "is_fresh", kind |-> kind, path |-> path,
               host |-> host, mtime |-> as_u64(host),
               value |-> is_fresh(cache_index, kind, path, as_u64(host))]
    /\ UNCHANGED <<cache_index, now>>
    /\ StoresUnchanged

InitBoundary == Init

\* a session of the host: one mark, then freshness reads
NextBoundary ==
    \/ ops = 0 /\ \E k \in Kinds, p \in CachePaths, h \in HostTimes : MarkProcessed(k, p, h)
    \/ ops > 0 /\ \E k \in Kinds, p \in CachePaths, h \in HostTimes : IsFresh(k, p, h)

SpecBoundary == InitBoundary /\ [][NextBoundary]_vars

\* C15: after mark_*_processed(p, t), is_*_fresh(p, t') is false for every
\* host number t' other than t, fractional and negative numbers included
C15_NoToleranceWindow ==
    [][ ( /\ ret.op = "mark_processed"
          /\ ret'.op = "is_fresh"
          /\ ret'.kind = ret.kind
          /\ ret'.path = ret.path
          /\ ret'.host # ret.host ) => ret'.value = FALSE ]_vars

-----------------------------------------------------------------------------
(* The keyword boost of suggest_links_for_text, src/src/lib.rs 217-230 *)

MaxKeywords == 5

\* "THE"
TheKeyword == <<"T", "H", "E">>

\* two keywords that stand in "The turbulence model breaks down" in another
\* case, and one that does not
BoostKeywords == {ModelKeyword, TheKeyword, FlowKeyword}

KeywordLists == UNION {[1..n -> BoostKeywords] : n \in 0..MaxKeywords}

\* the keywords stored for the candidate: none, or a list
KeywordStores == {EmptyMap} \cup {[p \in {CppPath} |-> list] : list \in KeywordLists}

\* the boost the loop body adds for one candidate
KeywordBoost(text, kws) ==
    /\ ops = 0
    /\ ops' = 1
    /\ ret' = [op |-> "keyword_boost", text |-> text, kws |-> kws,
               value |-> keyword_boost(to_lowercase(text), kws, CppPath)]
    /\ UNCHANGED <<cache_index, embeddings, file_contents, keywords, now, bytes>>

InitKeyword == Init

NextKeyword ==
    ops = 0 /\ \E text \in {ModelText, EmptyText} : \E kws \in KeywordStores :
        KeywordBoost(text, kws)

SpecKeyword == InitKeyword /\ [][NextKeyword]_vars

OccursIn(word, text) ==
    \E i \in 1..(Len(text) - Len(word) + 1) : SubSeq(text, i, i + Len(word) - 1) = word

\* the keywords of the candidate that stand in the text, whatever the case
MatchingKeywords ==
    IF CppPath \notin DOMAIN ret.kws THEN 0
    ELSE Cardinality({i \in 1..Len(ret.kws[CppPath]) :
                         OccursIn(to_lowercase(ret.kws[CppPath][i]), to_lowercase(ret.text))})

\* C24: with k of the candidate's keywords in the text, whatever the case, the
\* keyword boost is min(0.05 k, 0.20): 0 for k = 0 and never more than 0.20
C24_KeywordBoostCapped ==
    ret.op = "keyword_boost" =>
        /\ ret.value = (IF 5 * MatchingKeywords <= 20 THEN 5 * MatchingKeywords ELSE 20)
        /\ MatchingKeywords = 0 => ret.value = 0
        /\ ret.value <= 20

\* five keywords stand in the text and the boost is 0.20
C24_Witness ==
    /\ ret.op = "keyword_boost"
    /\ MatchingKeywords = 5
    /\ ret.value = 20

-----------------------------------------------------------------------------
(* The parsers of the external model's response, src/src/llm.rs 105-114 and
   399-570.  A response text is a sequence of atoms: the brackets and braces,
   the keys, the commas between array elements, a word of prose "w", and a
   line "Document N: score - reason"; an atom carries the index and the
   score where it has them. *)

Atom(t) == [t |-> t, i |-> 0, s |-> 0]

\* a line of the form "Document N: score - reason"
LineAtom(index, score) == [t |-> "line", i |-> index, s |-> score]

\* {"index": N, "score": S, "reason": "..."}, the reason given by its atoms
ItemText(index, score, reason) ==
    <<Atom("{"), [t |-> "index", i |-> index, s |-> 0],
      [t |-> "score", i |-> 0, s |-> score], Atom("reason")>> \o reason \o <<Atom("}")>>

\* what may stand inside a JSON string
StringAtoms == {"w", "[", "]", "line"}

\* text.find('['), text.rfind(']') and the slice between them
extract_json_array(text) ==
    LET opens  == {k \in 1..Len(text) : text[k].t = "["}
        closes == {k \in 1..Len(text) : text[k].t = "]"}
    IN  IF opens = {} \/ closes = {} THEN None
        ELSE LET first_bracket == CHOOSE k \in opens : \A j \in opens : k <= j
                 last_bracket  == CHOOSE k \in closes : \A j \in closes : j <= k
             IN  IF last_bracket > first_bracket
                 THEN Some(SubSeq(text, first_bracket, last_bracket))
                 ELSE None

\* the line loop: one ranking for every line whose index and score parse
parse_lines(text) ==
    LET found == SelectSeq(text, LAMBDA a : a.t = "line")
    IN  [k \in 1..Len(found) |-> LLMRankingItem(found[k].i, found[k].s)]

\* serde_json::from_str::<LLMRankingItem>
from_str_item(text) ==
    IF /\ Len(text) >= 5
       /\ text[1].t = "{" /\ text[2].t = "index" /\ text[3].t = "score"
       /\ text[4].t = "reason" /\ text[Len(text)].t = "}"
       /\ \A k \in 5..(Len(text) - 1) : text[k].t \in StringAtoms
    THEN Some(LLMRankingItem(text[2].i, text[3].s))
    ELSE None

\* serde_json::from_str::<Vec<LLMRankingItem>>
from_str_array(text) ==
    IF Len(text) < 2 \/ text[1].t # "[" \/ text[Len(text)].t # "]" THEN None
    ELSE IF Len(text) = 2 THEN Some(<<>>)
    ELSE LET commas == {k \in 2..(Len(text) - 1) : text[k].t = ","}
             starts == {2} \cup {k + 1 : k \in commas}
             stop(k) == CHOOSE e \in commas \cup {Len(text)} :
                            e >= k /\ \A f \in commas \cup {Len(text)} : f >= k => e <= f
             piece(k) == SubSeq(text, k, stop(k) - 1)
             ordered == SelectSeq([k \in 1..Len(text) |-> k], LAMBDA k : k \in starts)
         IN  IF \A k \in starts : from_str_item(piece(k)) # None
             THEN Some([n \in 1..Len(ordered) |-> from_str_item(piece(ordered[n]))[1]])
             ELSE None

\* serde_json::from_str::<WrappedResponseCandidates> / <WrappedResponseIndexes>
from_str_wrapped(text, field) ==
    IF /\ Len(text) >= 4
       /\ text[1].t = "{" /\ text[2].t = field /\ text[Len(text)].t = "}"
    THEN from_str_array(SubSeq(text, 3, Len(text) - 1))
    ELSE None

ParseOk(llm_rankings, stage) == [ok |-> TRUE, llm_rankings |-> llm_rankings, stage |-> stage]
ParseErr == [ok |-> FALSE, llm_rankings |-> <<>>, stage |-> "none"]

\* the cascade: the lines first; when they give nothing, the JSON forms, all
\* of them read from json_text
parse_response(response_text) ==
    IF parse_lines(response_text) # <<>>
    THEN ParseOk(parse_lines(response_text), "lines")
    ELSE LET extracted == extract_json_array(response_text)
             json_text == IF extracted # None THEN extracted[1] ELSE response_text
         IN  IF from_str_array(json_text) # None
             THEN ParseOk(from_str_array(json_text)[1], "array")
             ELSE IF from_str_item(json_text) # None
             THEN ParseOk(<<from_str_item(json_text)[1]>>, "single")
             ELSE IF from_str_wrapped(json_text, "candidates") # None
             THEN ParseOk(from_str_wrapped(json_text, "candidates")[1], "candidates")
             ELSE IF from_str_wrapped(json_text, "indexes") # None
             THEN ParseOk(from_str_wrapped(json_text, "indexes")[1], "indexes")
             ELSE ParseErr

\* the call up to the fusion loop, for a non-empty candidate list
ParseResponse(response_text) ==
    /\ ops = 0
    /\ ops' = 1
    /\ ret' = [op |-> "parse_response", text |-> response_text,
               parsed |-> parse_response(response_text)]
    /\ UNCHANGED <<cache_index, embeddings, file_contents, keywords, now, bytes>>

(* The response texts the parsers are given *)

\* a reason in plain words, one that cites "[w]", and one that quotes a line
Reasons ==
    {<<Atom("w")>>, <<Atom("["), Atom("w"), Atom("]")>>, <<LineAtom(1, 5)>>}

ItemTexts ==
    {ItemText(index, score, reason) :
        index \in 1..2, score \in LlmScores, reason \in Reasons \ {<<LineAtom(1, 5)>>}}
    \cup {ItemText(2, 8, <<LineAtom(1, 5)>>)}

RECURSIVE JoinItems(_)
JoinItems(items) ==
    IF items = <<>> THEN <<>>
    ELSE IF Len(items) = 1 THEN items[1]
    ELSE JoinItems(SubSeq(items, 1, Len(items) - 1)) \o <<Atom(",")>> \o items[Len(items)]

ArrayTexts ==
    {<<Atom("[")>> \o JoinItems(items) \o <<Atom("]")>> :
        items \in UNION {[1..n -> ItemTexts] : n \in 0..MaxRankings}}

ResponseTexts ==
    ArrayTexts
    \cup {<<Atom("w")>> \o array \o <<Atom("w")>> : array \in ArrayTexts}
    \cup ItemTexts
    \cup {<<Atom("{"), Atom(field)>> \o array \o <<Atom("}")>> :
            field \in {"candidates", "indexes"}, array \in ArrayTexts}
    \cup {<<LineAtom(index, score)>> : index \in 1..2, score \in LlmScores}
    \cup {<<LineAtom(1, 8), Atom("w"), LineAtom(2, 5)>>}
    \cup {<<LineAtom(2, 5)>> \o array : array \in ArrayTexts}
    \cup {<<>>, <<Atom("w")>>, <<Atom("]"), Atom("[")>>, <<Atom("{"), Atom("}")>>}

InitParse == Init

NextParse == ops = 0 /\ \E response_text \in ResponseTexts : ParseResponse(response_text)

SpecParse == InitParse /\ [][NextParse]_vars

(* Claim about the parsing cascade, checked under SpecParse *)

\* the stages as the cascade is described: the array wherever it stands in
\* the text, and then the response read as one record, as an object with
\* "candidates" and as an object with "indexes"
StageArray(text) ==
    IF extract_json_array(text) # None THEN from_str_array(extract_json_array(text)[1])
    ELSE from_str_array(text)

Stages(text) ==
    << IF parse_lines(text) # <<>> THEN Some(parse_lines(text)) ELSE None,
       StageArray(text),
       IF from_str_item(text) # None THEN Some(<<from_str_item(text)[1]>>) ELSE None,
       from_str_wrapped(text, "candidates"),
       from_str_wrapped(text, "indexes") >>

\* C26: the stages are tried in the order lines, array, single record,
\* object with "candidates", object with "indexes"; the first that succeeds
\* supplies the rankings, and the call fails exactly when every stage fails
C26_FirstStageWins ==
    ret.op = "parse_response" =>
        LET stages  == Stages(ret.text)
            succeed == {n \in 1..5 : stages[n] # None}
        IN  /\ ret.parsed.ok <=> succeed # {}
            /\ succeed # {} =>
                  LET first == CHOOSE n \in succeed : \A m \in succeed : n <= m
                  IN  ret.parsed.llm_rankings = stages[first][1]

-----------------------------------------------------------------------------
(* The list of ignored suggestions, src/src/cache.rs 112-130, and a session
   of ignore calls *)

\* key.splitn(2, '|'): the parts before and after the first '|', or the key
\* alone when it has none
splitn2(key) ==
    LET bars == {k \in 1..Len(key) : key[k] = "|"}
    IN  IF bars = {} THEN <<key>>
        ELSE LET first == CHOOSE k \in bars : \A j \in bars : k <= j
             IN  <<SubSeq(key, 1, first - 1), SubSeq(key, first + 1, Len(key))>>

IgnoredSuggestion(source_file, target_file, timestamp) ==
    [source_file |-> source_file, target_file |-> target_file, timestamp |-> timestamp]

\* the filter_map over the map's entries, in the order the HashMap gives them
RECURSIVE ignored_entries(_, _)
ignored_entries(ignored, order) ==
    IF order = <<>> THEN <<>>
    ELSE LET n     == Len(order)
             done  == ignored_entries(ignored, SubSeq(order, 1, n - 1))
             parts == splitn2(order[n])
         IN  IF Len(parts) = 2
             THEN Append(done, IgnoredSuggestion(parts[1], parts[2], ignored[order[n]]))
             ELSE done

\* the entries left in the order the map gave them
sort_by_timestamp_as_found(items) == items

\* result.sort_by(|a, b| b.timestamp.cmp(&a.timestamp)), stable
RECURSIVE sort_by_timestamp(_)
sort_by_timestamp(items) ==
    IF items = <<>> THEN <<>>
    ELSE LET n      == Len(items)
             sorted == sort_by_timestamp(SubSeq(items, 1, n - 1))
             x      == items[n]
             stops  == {i \in 1..Len(sorted) : sorted[i].timestamp >= x.timestamp}
             k      == IF stops = {} THEN 0
                       ELSE CHOOSE i \in stops : \A j \in stops : j <= i
         IN  SubSeq(sorted, 1, k) \o <<x>> \o SubSeq(sorted, k + 1, Len(sorted))

get_ignored_suggestions(ci, order) ==
    sort_by_timestamp(ignored_entries(ci.ignored_suggestions, order))

GetIgnoredSuggestions ==
    /\ Step
    /\ \E order \in Orders(DOMAIN cache_index.ignored_suggestions) :
          ret' = [op |-> "get_ignored_suggestions",
                  result |-> get_ignored_suggestions(cache_index, order)]
    /\ UNCHANGED <<cache_index, now>>
    /\ StoresUnchanged

\* "a", "b" and "a|a"
IgnoreNames == { <<"a">>, <<"b">>, <<"a", "|", "a">> }

\* an index persisted with a key that has no delimiter next to one that has
PersistedIgnored ==
    [CacheIndex_new EXCEPT
        !.ignored_suggestions =
            [k \in {<<"a">>, make_ignored_key(<<"b">>, <<"a">>)} |->
                IF k = <<"a">> THEN 1 ELSE 0]]

InitIgnore ==
    /\ cache_index = CacheIndex_new
    /\ embeddings = EmptyMap
    /\ file_contents = EmptyMap
    /\ keywords = EmptyMap
    /\ now = 0
    /\ bytes \in {CacheIndex_to_msgpack(PersistedIgnored, o) :
                    o \in IterationOrders(PersistedIgnored)}
    /\ ops = 0
    /\ ret = NoRet

NextIgnore ==
    \/ \E s \in IgnoreNames, t \in IgnoreNames : IgnoreSuggestion(s, t)
    \/ \E s \in IgnoreNames, t \in IgnoreNames : UnignoreSuggestion(s, t)
    \/ ClearIgnoredSuggestions
    \/ ClearAllCaches
    \/ DeserializeCacheIndex
    \/ GetIgnoredSuggestions
    \/ Tick

SpecIgnore == InitIgnore /\ [][NextIgnore]_vars

(* Claims about the ignored suggestions, checked under SpecIgnore *)

Ignored(ci, a, b) == is_suggestion_ignored(ci, a, b)

Entries(ci) == Cardinality(DOMAIN ci.ignored_suggestions)

\* C27: the ignore relation is directional: after ignore(a, b),
\* is_ignored(a, b) is true and stays true until unignore(a, b),
\* clear_ignored_suggestions or clear (or a load); for a # b, ignore(a, b)
\* does not make is_ignored(b, a) true, ignore(a, b) next to an entry of
\* ignore(b, a) makes a second entry, and unignore(a, b) leaves the entry of
\* ignore(b, a) in place
C27_IgnoreIsDirectional ==
    [][ ops' = ops + 1 =>
          /\ ret'.op = "ignore_suggestion" =>
                Ignored(cache_index', ret'.source, ret'.target)
          /\ \A a \in IgnoreNames, b \in IgnoreNames :
                ( /\ Ignored(cache_index, a, b)
                  /\ ~(ret'.op = "unignore_suggestion" /\ ret'.source = a /\ ret'.target = b)
                  /\ ret'.op \notin {"clear_ignored_suggestions", "clear",
                                     "deserialize_cache_index"} )
                    => Ignored(cache_index', a, b)
          /\ (ret'.op = "ignore_suggestion" /\ ret'.source # ret'.target) =>
                /\ ~Ignored(cache_index, ret'.target, ret'.source)
                      => ~Ignored(cache_index', ret'.target, ret'.source)
                /\ (Ignored(cache_index, ret'.target, ret'.source)
                      /\ ~Ignored(cache_index, ret'.source, ret'.target))
                      => Entries(cache_index') = Entries(cache_index) + 1
          /\ (ret'.op = "unignore_suggestion" /\ ret'.source # ret'.target
                /\ Ignored(cache_index, ret'.target, ret'.source))
                => Ignored(cache_index', ret'.target, ret'.source)
      ]_vars

HasDelimiter(key) == \E k \in 1..Len(key) : key[k] = "|"

\* C28: the list of ignored suggestions is in non-increasing order of
\* timestamp, has one entry, with the stored timestamp, for every stored key
\* that has the delimiter, and none for a stored key that has not
C28_ListSortedAndFiltered ==
    ret.op = "get_ignored_suggestions" =>
        LET ignored == cache_index.ignored_suggestions
            result  == ret.result
        IN  /\ \A i \in 1..Len(result) : \A j \in (i + 1)..Len(result) :
                  result[i].timestamp >= result[j].timestamp
            /\ Len(result) = Cardinality({key \in DOMAIN ignored : HasDelimiter(key)})
            /\ \A key \in DOMAIN ignored :
                  HasDelimiter(key) <=>
                      \E i \in 1..Len(result) :
                          /\ result[i].source_file \o <<"|">> \o result[i].target_file = key
                          /\ result[i].timestamp = ignored[key]

\* a loaded index holds the key "a", which has no delimiter; the list has
\* two entries with different timestamps and none for "a"
C28_Witness ==
    /\ ret.op = "get_ignored_suggestions"
    /\ <<"a">> \in DOMAIN cache_index.ignored_suggestions
    /\ Len(ret.result) = 2
    /\ ret.result[1].timestamp > ret.result[2].timestamp

PairsListed(ci) ==
    LET order == CHOOSE o \in Orders(DOMAIN ci.ignored_suggestions) : TRUE
        list  == get_ignored_suggestions(ci, order)
    IN  {<<list[i].source_file, list[i].target_file>> : i \in 1..Len(list)}

\* C29: the list is faithful to the calls: ignore(s, t) adds the pair (s, t),
\* with the strings as passed, to the pairs listed and changes no other,
\* unignore(s, t) takes that pair away and changes no other, and no pair is
\* listed twice; also for strings that contain '|'
C29_ListingFaithful ==
    [][ ops' = ops + 1 =>
          /\ ret'.op = "ignore_suggestion" =>
                /\ PairsListed(cache_index')
                      = PairsListed(cache_index) \cup {<<ret'.source, ret'.target>>}
                /\ \A order \in Orders(DOMAIN cache_index'.ignored_suggestions) :
                      Len(get_ignored_suggestions(cache_index', order))
                          = Cardinality(PairsListed(cache_index'))
          /\ ret'.op = "unignore_suggestion" =>
                PairsListed(cache_index')
                    = PairsListed(cache_index) \ {<<ret'.source, ret'.target>>}
      ]_vars

-----------------------------------------------------------------------------
(* Claim about the insertion cache, checked under Spec *)

InsertionPairs == CachePaths \X LinkTitles

Lookup(ci, pair) == get_cached_insertion(ci, pair[1], pair[2])

\* C30: the lookup is exact on the pair (path, title): cache_insertion(p, t,
\* blob) makes get_insertion(p, t) return blob and changes the lookup of no
\* other pair; invalidating p empties the lookups of p and changes those of
\* no other path; the two clears empty every lookup; no other call changes a
\* lookup; also for paths and titles that contain "::"
C30_LookupExactOnPair ==
    [][ ops' = ops + 1 =>
          \A pair \in InsertionPairs :
              Lookup(cache_index', pair) =
                  CASE ret'.op = "cache_insertion" ->
                          IF pair = <<ret'.path, ret'.title>> THEN Some(ret'.blob)
                          ELSE Lookup(cache_index, pair)
                    [] ret'.op \in {"invalidate_file", "invalidate_insertion_cache_for_file"} ->
                          IF pair[1] = ret'.path THEN None
                          ELSE Lookup(cache_index, pair)
                    [] ret'.op \in {"clear", "clear_insertion_cache"} -> None
                    [] OTHER -> Lookup(cache_index, pair)
      ]_vars

====
